--------------------------- MODULE Spec2Model ---------------------------
(***************************************************************************)
(* A model of pstack's DWARF unwinder, line-number VM and stack walker.    *)
(*                                                                         *)
(* Machine words (uintmax_t / Elf_Addr, 64 bits in the program) are        *)
(* modelled as integers modulo 2^WordBits: TLC's integers are 32 bits, so  *)
(* the width is scaled, the wrap-around structure is kept.  Signed values  *)
(* are kept in two's complement, as the program's conversions do.          *)
(*                                                                         *)
(* Every operation of the program that can fail returns a record with a    *)
(* field st:  "ok"     the operation returned normally;                    *)
(*            "throw"  it threw Exception (an incomplete Reader::readObj); *)
(*            "abort"  it called abort(): the whole process dies;          *)
(*            "ub"     it ran into undefined behaviour (top() of an empty  *)
(*                     std::stack, an index beyond an array).              *)
(***************************************************************************)
EXTENDS Integers, Sequences, FiniteSets, TLC

VARIABLES
    image,      \* the process image: ELF file bytes, frame sections, memory
    regs,       \* DwarfRegisters of the frame being unwound
    garbage,    \* the value indeterminate (uninitialised) storage happens to hold
    upc,        \* one-step unwind: "ready" | "done"
    ures,       \* one-step unwind: what dwarfUnwind produced
    threads,    \* stack walker: initial register sets, one per thread
    cur,        \* stack walker: index of the thread being walked
    wpc,        \* stack walker: "start" | "walking" | "done" | "aborted"
    frameCount, \* stack walker: loop counter of ThreadStack::unwind
    prevIp,     \* stack walker: ip of prevFrame
    stacks,     \* stack walker: per thread, the ips of ThreadStack::stack
    warned,     \* stack walker: per thread, whether the catch clause logged
    steps,      \* stack walker: per thread, the caller pcs the one-step unwinds returned
    ends,       \* stack walker: per thread, how its walk ended ("-" while it has not)
    lhdr,       \* line VM: header fields of the line program
    lio,        \* line VM: bytes of the line program
    loff,       \* line VM: reader offset
    lstate,     \* line VM: DwarfLineState
    matrix,     \* line VM: DwarfLineInfo::matrix
    lpc,        \* line VM: "run" | "done" | "abort" | "throw"
    lastOp,     \* line VM: the opcode the last step executed, and the state before it
    marks,      \* line VM (history): per row, whether the address was set or wrapped since the row before
    jumped,     \* line VM (history): the same, since the last row
    reader,     \* a DWARFReader in use: its io, off and end, and the last operation on it
    dwarf,      \* a DwarfInfo under construction: the object, the constructor's position, ehFrame and debugFrame
    lazy,       \* a DwarfInfo in use: its section pointers and the containers of units(), pubnames() and ranges()
    eval,       \* a run of dwarfEvalExpr: the bytes, the reader offset, the stack, the value returned
    cfi,        \* runs of DwarfCIE::execInsns on one CIE and FDE: the loop's state, the rows returned
    tree,       \* a DwarfUnit under construction: its abbreviations and the entries decoded so far
    source,     \* a run of DwarfInfo::sourceFromAddr: the ranges, the matrix, the loops' positions, info
    symbols     \* a run of ElfObject::findSymbolByAddress: the tables, the loops' positions, sym and lowest

vars == <<image, regs, garbage, upc, ures, threads, cur, wpc, frameCount,
          prevIp, stacks, warned, steps, ends, lhdr, lio, loff, lstate, matrix,
          lpc, lastOp, marks, jumped, reader, dwarf, lazy, eval, cfi, tree,
          source, symbols>>

unwindVars == <<upc, ures>>
walkVars == <<threads, cur, wpc, frameCount, prevIp, stacks, warned, steps, ends>>
lineVars == <<lhdr, lio, loff, lstate, matrix, lpc, lastOp, marks, jumped>>
lastVars == <<source, symbols>>
laterVars == <<cfi, tree, lastVars>>
otherVars == <<reader, dwarf, lazy, eval, laterVars>>
restVars == <<dwarf, lazy, eval, laterVars>>

-----------------------------------------------------------------------------
(* Words *)

WordBits == 12
W == 2 ^ WordBits

ToWord(x) == x % W
WAdd(a, b) == (a + b) % W
WSub(a, b) == (a - b) % W
WMul(a, b) == ((a % W) * (b % W)) % W

MAXREG == 128
RegNos == 0 .. (MAXREG - 1)

-----------------------------------------------------------------------------
(* DWARFReader over a Reader: `io' is the sequence of bytes of the file,   *)
(* offset k is io[k + 1].  Reader::readObj throws on an incomplete read.   *)

Ok(v, off) == [st |-> "ok", v |-> v, off |-> off]
Fail(st, off) == [st |-> st, v |-> 0, off |-> off]

CanRead(io, off, count) == off + count <= Len(io)

getu8(io, off) ==
    IF CanRead(io, off, 1) THEN Ok(io[off + 1], off + 1) ELSE Fail("throw", off)

(* int8_t: the byte as a signed value *)
gets8(io, off) ==
    IF CanRead(io, off, 1)
    THEN Ok(IF io[off + 1] >= 128 THEN io[off + 1] - 256 ELSE io[off + 1], off + 1)
    ELSE Fail("throw", off)

RECURSIVE BigFold(_, _, _, _)
(* rc = rc << 8 | p[-i] for i = 1..len: the last byte read is the most     *)
(* significant one. *)
BigFold(io, off, len, i) ==
    IF i = 0 THEN 0
    ELSE ToWord(256 * BigFold(io, off, len, i - 1) + io[off + len - i + 1])

getuint(io, off, len) ==
    IF len > 16 THEN Fail("throw", off)
    ELSE IF ~CanRead(io, off, len) THEN Fail("throw", off)
    ELSE Ok(BigFold(io, off, len, len), off + len)

getu16(io, off) ==
    IF CanRead(io, off, 2)
    THEN Ok(ToWord(io[off + 1] + 256 * io[off + 2]), off + 2)
    ELSE Fail("throw", off)

getu32(io, off) ==
    IF CanRead(io, off, 4)
    THEN Ok(ToWord(io[off + 1] + 256 * ToWord(io[off + 2]
               + 256 * ToWord(io[off + 3] + 256 * io[off + 4]))), off + 4)
    ELSE Fail("throw", off)

(* A value of the program's integer types, exactly: the set of the         *)
(* positions of its one bits (uintmax_t and intmax_t have LongBits bits,   *)
(* int has IntBits).                                                       *)
IntBits == 32
LongBits == 64

BitsOf(d) == {b \in 0 .. 7 : (d \div (2 ^ b)) % 2 = 1}

(* The bits of a value that fit the model's word, as a number. *)
RECURSIVE BitSum(_, _)
BitSum(bits, n) ==
    IF n = 0 THEN 0
    ELSE BitSum(bits, n - 1) + (IF (n - 1) \in bits THEN 2 ^ (n - 1) ELSE 0)

WordOf(bits) == BitSum(bits, WordBits)

(* (byte & 0x7f) << *shift, converted to uintmax_t for the |=.  The left   *)
(* operand is an int: a shift by IntBits or more, or one that pushes a one *)
(* bit out of the unsigned range, is undefined; a one bit that lands on    *)
(* the sign bit gives a negative int, whose conversion sets every higher   *)
(* bit.                                                                    *)
Shifted(d, shift) == {b + shift : b \in BitsOf(d % 128)}

LebTermOf(raw, shift) ==
    IF shift >= IntBits \/ (\E b \in raw : b >= IntBits)
    THEN [st |-> "ub", bits |-> {}]
    ELSE IF (IntBits - 1) \in raw
    THEN [st |-> "ok", bits |-> raw \cup (IntBits .. (LongBits - 1))]
    ELSE [st |-> "ok", bits |-> raw]

LebTerm(d, shift) == LebTermOf(Shifted(d, shift), shift)

RECURSIVE LebLoop(_, _, _, _)
(* The loop of getuleb128shift: [st, bits, off, shift, isSigned]; `result' *)
(* and `shift' are the loop's accumulators.                                *)
LebLoop(io, off, result, shift) ==
    IF ~CanRead(io, off, 1)
    THEN [st |-> "throw", bits |-> {}, off |-> off + 1, shift |-> shift,
          isSigned |-> FALSE]
    ELSE IF LebTerm(io[off + 1], shift).st # "ok"
    THEN [st |-> "ub", bits |-> {}, off |-> off + 1, shift |-> shift,
          isSigned |-> FALSE]
    ELSE IF io[off + 1] >= 128
    THEN LebLoop(io, off + 1, result \cup LebTerm(io[off + 1], shift).bits, shift + 7)
    ELSE [st |-> "ok", bits |-> result \cup LebTerm(io[off + 1], shift).bits,
          off |-> off + 1, shift |-> shift + 7,
          isSigned |-> ((io[off + 1] \div 64) % 2 = 1)]

getuleb128shift(io, off) == LebLoop(io, off, {}, 0)

(* if (isSigned) result |= -((uintmax_t)1 << shift): a shift by LongBits   *)
(* or more is undefined.                                                   *)
SignExtend(r) ==
    IF r.st = "ok" /\ r.isSigned
    THEN IF r.shift >= LongBits
         THEN [r EXCEPT !.st = "ub"]
         ELSE [r EXCEPT !.bits = @ \cup (r.shift .. (LongBits - 1))]
    ELSE r

(* The decoded value exactly (bits) and as a word of the model (v). *)
Unsigned(r) == [st |-> r.st, v |-> WordOf(r.bits), bits |-> r.bits, off |-> r.off]

getuleb128(io, off) == Unsigned(getuleb128shift(io, off))

getsleb128(io, off) == Unsigned(SignExtend(getuleb128shift(io, off)))

(* getstring: the bytes up to a zero byte; abort() once more than          *)
(* MaxString characters have been appended.                                *)
MaxString == 2000

RECURSIVE StringLoop(_, _, _)
StringLoop(io, off, str) ==
    IF ~CanRead(io, off, 1) THEN [st |-> "throw", v |-> str, off |-> off]
    ELSE IF io[off + 1] = 0 THEN [st |-> "ok", v |-> str, off |-> off + 1]
    ELSE IF Len(str) > MaxString THEN [st |-> "abort", v |-> str, off |-> off + 1]
    ELSE StringLoop(io, off + 1, Append(str, io[off + 1]))

getstring(io, off) == StringLoop(io, off, <<>>)

(* length >= 0xfffffff0 and length == 0xffffffff, on the four bytes of the *)
(* word getu32 has read at off.                                            *)
Escape(io, off) ==
    io[off + 4] = 255 /\ io[off + 3] = 255 /\ io[off + 2] = 255 /\ io[off + 1] >= 240

Sentinel(io, off) == Escape(io, off) /\ io[off + 1] = 255

(* A getlength that takes every word for a 32-bit length. *)
getlength32(io, off) == getu32(io, off)

(* DWARFReader::getlength *)
getlength(io, off) ==
    IF ~CanRead(io, off, 4) THEN Fail("throw", off)
    ELSE IF Sentinel(io, off) THEN getuint(io, off + 4, 8)
    ELSE IF Escape(io, off) THEN Ok(0, off + 4)
    ELSE getu32(io, off)

(* DwarfARangeSet::DwarfARangeSet.  The result: st, the reader's offset,   *)
(* the header size (used), the offset of the first tuple (first) and the   *)
(* ranges.                                                                 *)
ASet(st, off, used, first, ranges) ==
    [st |-> st, off |-> off, used |-> used, first |-> first, ranges |-> ranges]

RECURSIVE ARangeLoop(_, _, _, _, _)
(* while (r.getOffset() < next): start and length, until both are zero *)
ARangeTuple(io, next, addrlen, a, x, y) ==
    IF x.st # "ok" THEN [a EXCEPT !.st = x.st, !.off = x.off]
    ELSE IF y.st # "ok" THEN [a EXCEPT !.st = y.st, !.off = y.off]
    ELSE IF x.v = 0 /\ y.v = 0 THEN [a EXCEPT !.off = y.off]
    ELSE ARangeLoop(io, next, addrlen,
                    [a EXCEPT !.off = y.off, !.ranges = Append(@, <<x.v, y.v>>)],
                    y.off)

ARangeStart(io, next, addrlen, a, x) ==
    ARangeTuple(io, next, addrlen, a, x,
                IF x.st = "ok" THEN getuint(io, x.off, addrlen) ELSE x)

ARangeLoop(io, next, addrlen, a, off) ==
    IF off < next
    THEN ARangeStart(io, next, addrlen, a, getuint(io, off, addrlen))
    ELSE a

(* align = tupleLen - used % tupleLen *)
Align(tupleLen, used) == tupleLen - (used % tupleLen)

(* tupleLen = addrlen * 2; used = r.getOffset() - start; r.skip(align).    *)
(* A remainder by zero is undefined.                                       *)
ARangeAlign(io, start, next, addrlen, off) ==
    IF addrlen = 0 THEN ASet("ub", off, off - start, off, <<>>)
    ELSE ARangeLoop(io, next, addrlen,
                    ASet("ok", off + Align(addrlen * 2, off - start), off - start,
                         off + Align(addrlen * 2, off - start), <<>>),
                    off + Align(addrlen * 2, off - start))

(* the header fields after the length: version, debugInfoOffset, addrlen,  *)
(* segdesclen                                                              *)
ARangeSeg(io, start, next, al, sl) ==
    IF sl.st # "ok" THEN ASet(sl.st, sl.off, 0, 0, <<>>)
    ELSE ARangeAlign(io, start, next, al.v, sl.off)

ARangeAddr(io, start, next, al) ==
    IF al.st # "ok" THEN ASet(al.st, al.off, 0, 0, <<>>)
    ELSE ARangeSeg(io, start, next, al, getu8(io, al.off))

ARangeInfo(io, start, next, d) ==
    IF d.st # "ok" THEN ASet(d.st, d.off, 0, 0, <<>>)
    ELSE ARangeAddr(io, start, next, getu8(io, d.off))

ARangeVersion(io, start, next, ver) ==
    IF ver.st # "ok" THEN ASet(ver.st, ver.off, 0, 0, <<>>)
    ELSE ARangeInfo(io, start, next, getu32(io, ver.off))

ARangeLength(io, start, len) ==
    IF len.st # "ok" THEN ASet(len.st, len.off, 0, 0, <<>>)
    ELSE ARangeVersion(io, start, len.off + len.v, getu16(io, len.off))

DwarfARangeSet(io, off) == ARangeLength(io, off, getlength(io, off))

-----------------------------------------------------------------------------
(* Frame sections: DwarfInfo::decodeAddress, the constructors of DwarfCIE  *)
(* and DwarfFDE, and DwarfFrameInfo, over the bytes of the file.           *)

(* getint: rc starts as -1 when the most significant byte has its top bit  *)
(* set, then rc = rc << 8 | p[-i].                                         *)
RECURSIVE IntFold(_, _, _, _, _)
IntFold(io, off, len, i, rc) ==
    IF i = 0 THEN rc
    ELSE ToWord(256 * IntFold(io, off, len, i - 1, rc) + io[off + len - i + 1])

getint(io, off, len) ==
    IF len > 16 THEN Fail("throw", off)
    ELSE IF ~CanRead(io, off, len) THEN Fail("throw", off)
    ELSE Ok(IntFold(io, off, len, len, IF io[off + len] >= 128 THEN W - 1 ELSE 0),
            off + len)

(* Pointer encodings *)
DW_EH_PE_absptr == 0
DW_EH_PE_uleb128 == 1
DW_EH_PE_udata2 == 2
DW_EH_PE_udata4 == 3
DW_EH_PE_udata8 == 4
DW_EH_PE_sleb128 == 9
DW_EH_PE_sdata2 == 10
DW_EH_PE_sdata4 == 11
DW_EH_PE_sdata8 == 12
DW_EH_PE_pcrel == 16
DW_EH_PE_textrel == 32
DW_EH_PE_aligned == 80

(* The first switch of decodeAddress, on encoding & 0xf. *)
AddressBase(io, off, format) ==
    CASE format = DW_EH_PE_sdata2 -> getint(io, off, 2)
      [] format = DW_EH_PE_sdata4 -> getint(io, off, 4)
      [] format = DW_EH_PE_sdata8 -> getint(io, off, 8)
      [] format = DW_EH_PE_udata2 -> getuint(io, off, 2)
      [] format = DW_EH_PE_udata4 -> getuint(io, off, 4)
      [] format = DW_EH_PE_udata8 -> getuint(io, off, 8)
      [] format = DW_EH_PE_sleb128 -> getsleb128(io, off)
      [] format = DW_EH_PE_uleb128 -> getuleb128(io, off)
      [] OTHER -> Fail("abort", off)

(* The second switch, on encoding & 0xf0: base += offset + elf->base. *)
AddressRel(application, offset, elfBase, b) ==
    IF b.st = "ok" /\ application = DW_EH_PE_pcrel
    THEN Ok(WAdd(b.v, WAdd(offset, elfBase)), b.off)
    ELSE [st |-> b.st, v |-> b.v, off |-> b.off]

decodeAddress(io, off, encoding, elfBase) ==
    AddressRel((encoding \div 16) * 16, off, elfBase,
               AddressBase(io, off, encoding % 16))

(* Characters of the augmentation string *)
Aug_z == 122
Aug_P == 80
Aug_L == 76
Aug_R == 82
Aug_S == 83

(* State of the augmentation loop of DwarfCIE: st, reader offset and       *)
(* addressEncoding.                                                        *)
AugState(st, off, enc) == [st |-> st, off |-> off, addressEncoding |-> enc]

(* case 'P': the personality routine, decoded and dropped *)
AugPersonality(io, elfBase, a, e) ==
    IF e.st # "ok" THEN AugState(e.st, e.off, a.addressEncoding)
    ELSE AugState(decodeAddress(io, e.off, e.v, elfBase).st,
                  decodeAddress(io, e.off, e.v, elfBase).off, a.addressEncoding)

(* One character of the augmentation string after the 'z'; go is FALSE     *)
(* on the early exit of an unknown character.                              *)
AugChar(io, elfBase, a, c) ==
    CASE c = Aug_P -> [go |-> TRUE, a |-> AugPersonality(io, elfBase, a, getu8(io, a.off))]
      [] c = Aug_L -> [go |-> TRUE,
                       a |-> AugState(getu8(io, a.off).st, getu8(io, a.off).off,
                                      a.addressEncoding)]
      [] c = Aug_R -> [go |-> TRUE,
                       a |-> AugState(getu8(io, a.off).st, getu8(io, a.off).off,
                                      getu8(io, a.off).v)]
      [] c = Aug_S -> [go |-> TRUE, a |-> a]
      [] OTHER -> [go |-> FALSE, a |-> a]

RECURSIVE AugLoop(_, _, _, _, _)
AugStep(io, elfBase, aug, k, n) ==
    IF n.go /\ n.a.st = "ok" THEN AugLoop(io, elfBase, aug, k + 1, n.a) ELSE n.a

AugLoop(io, elfBase, aug, k, a) ==
    IF k > Len(aug) THEN a
    ELSE AugStep(io, elfBase, aug, k, AugChar(io, elfBase, a, aug[k]))

CIEResult(st, cie) == [st |-> st, cie |-> cie]

(* instructions = r.getOffset() after the augmentation data *)
(* r.setOffset(end): off is where the constructor leaves the reader.       *)
CIEDone(end, version, aug, codeAlign, dataAlign, rar, enc, insns) ==
    [st |-> "ok", off |-> end,
     cie |-> [version |-> version, augmentation |-> aug,
              codeAlign |-> codeAlign, dataAlign |-> dataAlign,
              rar |-> rar, addressEncoding |-> enc,
              instructions |-> insns, end |-> end]]

(* A constructor that takes the instructions to start where the           *)
(* augmentation loop stopped reading.                                      *)
CIEAugDataAsRead(end, version, aug, codeAlign, dataAlign, rar, endaugdata, a) ==
    IF a.st # "ok" THEN CIEResult(a.st, <<>>)
    ELSE CIEDone(end, version, aug, codeAlign, dataAlign, rar, a.addressEncoding,
                 a.off)

(* after the augmentation loop: r.setOffset(endaugdata) *)
CIEAugData(end, version, aug, codeAlign, dataAlign, rar, endaugdata, a) ==
    IF a.st # "ok" THEN CIEResult(a.st, <<>>)
    ELSE CIEDone(end, version, aug, codeAlign, dataAlign, rar, a.addressEncoding,
                 endaugdata)

(* the augmentation size of a 'z' string, then its characters *)
CIEAugSize(io, elfBase, end, version, aug, codeAlign, dataAlign, rar, size) ==
    IF size.st # "ok" THEN CIEResult(size.st, <<>>)
    ELSE CIEAugData(end, version, aug, codeAlign, dataAlign, rar, size.off + size.v,
                    AugLoop(io, elfBase, aug, 2,
                            AugState("ok", size.off, DW_EH_PE_udata4)))

(* addressEncoding = DW_EH_PE_udata4, then the augmentations *)
CIEAug(io, elfBase, end, version, aug, codeAlign, dataAlign, rar) ==
    IF rar.st # "ok" THEN CIEResult(rar.st, <<>>)
    ELSE IF aug # <<>> /\ aug[1] = Aug_z
    THEN CIEAugSize(io, elfBase, end, version, aug, codeAlign, dataAlign.v, rar.v,
                    getuleb128(io, rar.off))
    ELSE CIEDone(end, version, aug, codeAlign, dataAlign.v, rar.v, DW_EH_PE_udata4,
                 rar.off)

CIERar(io, elfBase, end, version, aug, codeAlign, dataAlign) ==
    IF dataAlign.st # "ok" THEN CIEResult(dataAlign.st, <<>>)
    ELSE CIEAug(io, elfBase, end, version, aug, codeAlign, dataAlign,
                getu8(io, dataAlign.off))

CIEDataAlign(io, elfBase, end, version, aug, codeAlign) ==
    IF codeAlign.st # "ok" THEN CIEResult(codeAlign.st, <<>>)
    ELSE CIERar(io, elfBase, end, version, aug, codeAlign.v,
                getsleb128(io, codeAlign.off))

CIECodeAlign(io, elfBase, end, version, aug) ==
    IF aug.st # "ok" THEN CIEResult(aug.st, <<>>)
    ELSE CIEDataAlign(io, elfBase, end, version, aug.v, getuleb128(io, aug.off))

CIEAugmentation(io, elfBase, end, version) ==
    IF version.st # "ok" THEN CIEResult(version.st, <<>>)
    ELSE CIECodeAlign(io, elfBase, end, version.v, getstring(io, version.off))

(* DwarfCIE::DwarfCIE(info, r, end) with r at off: st and the CIE. *)
DwarfCIE(io, off, end, elfBase) == CIEAugmentation(io, elfBase, end, getu8(io, off))

FDEResult(st, fde) == [st |-> st, fde |-> fde]

(* while (alen--) aug.push_back(reader.getu8()) *)
FDEAugBytes(io, off, alen) ==
    IF CanRead(io, off, alen) THEN Ok(0, off + alen) ELSE Fail("throw", Len(io))

FDEDone(cie, end, iloc, irange, a) ==
    IF a.st # "ok" THEN FDEResult(a.st, <<>>)
    ELSE FDEResult("ok", [cie |-> cie, iloc |-> iloc, irange |-> irange,
                          instructions |-> a.off, end |-> end])

FDEAugLen(io, cie, end, iloc, irange, alen) ==
    IF alen.st # "ok" THEN FDEResult(alen.st, <<>>)
    ELSE FDEDone(cie, end, iloc, irange, FDEAugBytes(io, alen.off, alen.v))

FDEAug(io, cie, end, iloc, irange) ==
    IF irange.st # "ok" THEN FDEResult(irange.st, <<>>)
    ELSE IF cie.augmentation # <<>> /\ cie.augmentation[1] = Aug_z
    THEN FDEAugLen(io, cie, end, iloc, irange.v, getuleb128(io, irange.off))
    ELSE FDEDone(cie, end, iloc, irange.v, Ok(0, irange.off))

FDERange(io, elfBase, cie, end, iloc) ==
    IF iloc.st # "ok" THEN FDEResult(iloc.st, <<>>)
    ELSE FDEAug(io, cie, end, iloc.v,
                decodeAddress(io, iloc.off, cie.addressEncoding % 16, elfBase))

(* DwarfFDE::DwarfFDE(info, reader, cie, end) with reader at off. *)
DwarfFDE(io, off, cie, end, elfBase) ==
    FDERange(io, elfBase, cie, end,
             decodeAddress(io, off, cie.addressEncoding, elfBase))

FI_DEBUG_FRAME == "debug_frame"
FI_EH_FRAME == "eh_frame"

(* cieid == 0xffffffff and cieid == 0, on the four bytes of the id *)
IdBytes(io, idoff, b) == \A k \in 1 .. 4 : io[idoff + k] = b

(* DwarfFrameInfo::isCIE, for the id read at idoff *)
isCIE(type, io, idoff) ==
    \/ type = FI_DEBUG_FRAME /\ IdBytes(io, idoff, 255)
    \/ type = FI_EH_FRAME /\ IdBytes(io, idoff, 0)

(* The id as uintmax_t: the four bytes, zero-extended.  Offsets and keys   *)
(* are kept exact here; Beyond stands for every value of 2^31 and more,    *)
(* which is the offset of no entry of the files decoded.                   *)
Beyond == 0 - 1

Id32(io, idoff) ==
    IF io[idoff + 4] >= 128 THEN Beyond
    ELSE io[idoff + 1] + 256 * io[idoff + 2] + 65536 * io[idoff + 3]
            + 16777216 * io[idoff + 4]

(* The key of cies.find: idoff - id (modulo 2^64) in .eh_frame, id in      *)
(* .debug_frame                                                            *)
CIEKey(type, idoff, id) ==
    IF type = FI_EH_FRAME
    THEN IF id = Beyond \/ id > idoff THEN Beyond ELSE idoff - id
    ELSE id

Hdr(st, next, idoff, id, isCie, key) ==
    [st |-> st, next |-> next, idoff |-> idoff, id |-> id, isCie |-> isCie,
     key |-> key, off |-> idoff + 4]

(* id = r.getuint(version >= 3 ? ELF_BITS/8 : 4), version being 2 *)
HdrId(io, type, length, idoff, id) ==
    IF id.st # "ok" THEN Hdr(id.st, 0, idoff, 0, FALSE, 0)
    ELSE Hdr("ok", idoff + length, idoff, Id32(io, idoff), isCIE(type, io, idoff),
             CIEKey(type, idoff, Id32(io, idoff)))

HdrLength(io, type, length) ==
    IF length.st # "ok" THEN Hdr(length.st, 0, length.off, 0, FALSE, 0)
    ELSE IF length.v = 0 THEN Hdr("ok", 0, length.off, 0, FALSE, 0)
    ELSE HdrId(io, type, length.v, length.off, getuint(io, length.off, 4))

(* DwarfFrameInfo::decodeCIEFDEHdr with r at off: st, the offset of the    *)
(* next entry (0 at a zero length), the id and the key of the CIE looked   *)
(* up for a non-CIE entry.                                                 *)
decodeCIEFDEHdr(io, off, type) == HdrLength(io, type, getlength(io, off))

(* The first pass: cies[cieoff] = DwarfCIE(dwarf, reader, nextoff).  The   *)
(* map cies is a function from the offsets of the entries to the CIEs.     *)
Put(cies, cieoff, cie) ==
    [k \in DOMAIN cies \cup {cieoff} |-> IF k = cieoff THEN cie ELSE cies[k]]

CIEPassResult(st, cies) == [st |-> st, cies |-> cies]

RECURSIVE CIEPass(_, _, _, _, _, _)
CIEPassPut(io, type, elfBase, end, h, cieoff, cies, c) ==
    IF c.st # "ok" THEN CIEPassResult(c.st, cies)
    ELSE CIEPass(io, type, elfBase, end, h.next, Put(cies, cieoff, c.cie))

CIEPassEntry(io, type, elfBase, end, cieoff, cies, h) ==
    IF h.st # "ok" THEN CIEPassResult(h.st, cies)
    ELSE IF h.next = 0 THEN CIEPassResult("ok", cies)
    ELSE IF h.isCie
    THEN CIEPassPut(io, type, elfBase, end, h, cieoff, cies,
                    DwarfCIE(io, h.off, h.next, elfBase))
    ELSE CIEPass(io, type, elfBase, end, h.next, cies)

CIEPass(io, type, elfBase, end, off, cies) ==
    IF off = end THEN CIEPassResult("ok", cies)
    ELSE CIEPassEntry(io, type, elfBase, end, off, cies,
                      decodeCIEFDEHdr(io, off, type))

(* The second pass: fdeList.push_back(DwarfFDE(info, reader, cie,          *)
(* nextoff)); refs records, for each FDE, the offset of its entry, its id  *)
(* and the key its CIE was found under.                                    *)
FrameInfo(st, cies, fdeList, refs) ==
    [st |-> st, cies |-> cies, fdeList |-> fdeList, refs |-> refs]

RECURSIVE FDEPass(_, _, _, _, _, _, _, _)
FDEPassPush(io, type, elfBase, end, off, cies, fdeList, refs, h, f) ==
    IF f.st # "ok" THEN FrameInfo(f.st, cies, fdeList, refs)
    ELSE FDEPass(io, type, elfBase, end, h.next, cies, Append(fdeList, f.fde),
                 Append(refs, [entry |-> off, id |-> h.id, cieoff |-> h.key]))

FDEPassEntry(io, type, elfBase, end, off, cies, fdeList, refs, h) ==
    IF h.st # "ok" THEN FrameInfo(h.st, cies, fdeList, refs)
    ELSE IF h.next = 0 THEN FrameInfo("ok", cies, fdeList, refs)
    ELSE IF h.isCie THEN FDEPass(io, type, elfBase, end, h.next, cies, fdeList, refs)
    ELSE IF h.key \notin DOMAIN cies THEN FrameInfo("throw", cies, fdeList, refs)
    ELSE FDEPassPush(io, type, elfBase, end, off, cies, fdeList, refs, h,
                     DwarfFDE(io, h.off, cies[h.key], h.next, elfBase))

FDEPass(io, type, elfBase, end, off, cies, fdeList, refs) ==
    IF off = end THEN FrameInfo("ok", cies, fdeList, refs)
    ELSE FDEPassEntry(io, type, elfBase, end, off, cies, fdeList, refs,
                      decodeCIEFDEHdr(io, off, type))

FramePasses(io, type, elfBase, start, end, p) ==
    IF p.st # "ok" THEN FrameInfo(p.st, p.cies, <<>>, <<>>)
    ELSE FDEPass(io, type, elfBase, end, start, p.cies, <<>>, <<>>)

(* DwarfFrameInfo::DwarfFrameInfo(info, reader, type) for a reader on      *)
(* [off, off + size).                                                      *)
DwarfFrameInfo(io, off, size, type, elfBase) ==
    FramePasses(io, type, elfBase, off, off + size,
                CIEPass(io, type, elfBase, off + size, off, <<>>))

-----------------------------------------------------------------------------
(* The units of .debug_pubnames and .debug_info.                           *)

(* while (r.getOffset() < next): offset = getu32, stop at 0, else a        *)
(* DwarfPubname(r, offset) with the name read by getstring.                *)
PubUnit(st, off, names) == [st |-> st, off |-> off, pubnames |-> names]

RECURSIVE PubnameLoop(_, _, _, _)
PubnamePush(io, next, names, offset, name) ==
    IF name.st # "ok" THEN PubUnit(name.st, name.off, names)
    ELSE PubnameLoop(io, name.off, next,
                     Append(names, [offset |-> offset.v, name |-> name.v]))

PubnameOffset(io, next, names, offset) ==
    IF offset.st # "ok" THEN PubUnit(offset.st, offset.off, names)
    ELSE IF offset.v = 0 THEN PubUnit("ok", offset.off, names)
    ELSE PubnamePush(io, next, names, offset, getstring(io, offset.off))

PubnameLoop(io, off, next, names) ==
    IF off < next THEN PubnameOffset(io, next, names, getu32(io, off))
    ELSE PubUnit("ok", off, names)

PubInfoLength(io, next, infoLength) ==
    IF infoLength.st # "ok" THEN PubUnit(infoLength.st, infoLength.off, <<>>)
    ELSE PubnameLoop(io, infoLength.off, next, <<>>)

PubInfoOffset(io, next, infoOffset) ==
    IF infoOffset.st # "ok" THEN PubUnit(infoOffset.st, infoOffset.off, <<>>)
    ELSE PubInfoLength(io, next, getu32(io, infoOffset.off))

PubVersion(io, next, version) ==
    IF version.st # "ok" THEN PubUnit(version.st, version.off, <<>>)
    ELSE PubInfoOffset(io, next, getu32(io, version.off))

PubLength(io, length) ==
    IF length.st # "ok" THEN PubUnit(length.st, length.off, <<>>)
    ELSE PubVersion(io, length.off + length.v, getu16(io, length.off))

(* DwarfPubnameUnit::DwarfPubnameUnit(r) with r at off *)
DwarfPubnameUnit(io, off) == PubLength(io, getu32(io, off))

(* Attribute forms *)
DW_FORM_string == 8
DW_FORM_data1 == 11
DW_FORM_udata == 15

(* DwarfAbbreviation::DwarfAbbreviation(r, code): tag, hasChildren and the *)
(* (name, form) pairs up to the pair (0, 0).                               *)
Abbrev(st, off, tag, hasChildren, specs) ==
    [st |-> st, off |-> off, tag |-> tag, hasChildren |-> hasChildren,
     specs |-> specs]

RECURSIVE SpecLoop(_, _, _, _, _)
SpecForm(io, tag, hasChildren, specs, name, form) ==
    IF form.st # "ok" THEN Abbrev(form.st, form.off, tag, hasChildren, specs)
    ELSE IF name.v = 0 /\ form.v = 0 THEN Abbrev("ok", form.off, tag, hasChildren, specs)
    ELSE SpecLoop(io, form.off, tag, hasChildren,
                  Append(specs, [name |-> name.v, form |-> form.v]))

SpecName(io, tag, hasChildren, specs, name) ==
    IF name.st # "ok" THEN Abbrev(name.st, name.off, tag, hasChildren, specs)
    ELSE SpecForm(io, tag, hasChildren, specs, name, getuleb128(io, name.off))

SpecLoop(io, off, tag, hasChildren, specs) ==
    SpecName(io, tag, hasChildren, specs, getuleb128(io, off))

AbbrevChildren(io, tag, hasChildren) ==
    IF hasChildren.st # "ok" THEN Abbrev(hasChildren.st, hasChildren.off, tag, 0, <<>>)
    ELSE SpecLoop(io, hasChildren.off, tag, hasChildren.v, <<>>)

AbbrevTag(io, tag) ==
    IF tag.st # "ok" THEN Abbrev(tag.st, tag.off, 0, 0, <<>>)
    ELSE AbbrevChildren(io, tag.v, getu8(io, tag.off))

DwarfAbbreviation(io, off) == AbbrevTag(io, getuleb128(io, off))

(* while ((code = abbR.getuleb128()) != 0) abbreviations[code] = ... *)
AbbrevTable(st, table) == [st |-> st, table |-> table]

RECURSIVE AbbrevLoop(_, _, _)
AbbrevPut(io, table, code, a) ==
    IF a.st # "ok" THEN AbbrevTable(a.st, table)
    ELSE AbbrevLoop(io, a.off, Put(table, code.v, a))

AbbrevCode(io, table, code) ==
    IF code.st # "ok" THEN AbbrevTable(code.st, table)
    ELSE IF code.v = 0 THEN AbbrevTable("ok", table)
    ELSE AbbrevPut(io, table, code, DwarfAbbreviation(io, code.off))

AbbrevLoop(io, off, table) == AbbrevCode(io, table, getuleb128(io, off))

(* DwarfAttribute::DwarfAttribute: the cases of the forms that occur in    *)
(* the units decoded here; a form without a case reaches abort().          *)
DwarfAttribute(io, off, form) ==
    CASE form = DW_FORM_data1 -> getu8(io, off)
      [] form = DW_FORM_udata -> getuleb128(io, off)
      [] form = DW_FORM_string ->
            [st |-> getstring(io, off).st, v |-> 0, off |-> getstring(io, off).off]
      [] OTHER -> Fail("abort", off)

RECURSIVE AttrLoop(_, _, _, _)
AttrNext(io, specs, k, a) ==
    IF a.st # "ok" THEN a ELSE AttrLoop(io, a.off, specs, k + 1)

AttrLoop(io, off, specs, k) ==
    IF k > Len(specs) THEN Ok(0, off)
    ELSE AttrNext(io, specs, k, DwarfAttribute(io, off, specs[k].form))

(* DwarfUnit::decodeEntries on the reader [off, end) and DwarfEntry: the   *)
(* result counts the entries decoded, children included.  An abbreviation  *)
(* code that is not in the table gets a default-constructed abbreviation,  *)
(* whose hasChildren is indeterminate.  The object has no .debug_line, so  *)
(* a compile unit entry only logs a warning.                               *)
Entries(st, off, count) == [st |-> st, off |-> off, count |-> count]

RECURSIVE decodeEntries(_, _, _, _, _)
EntrySiblings(io, end, table, count, children) ==
    IF children.st # "ok" THEN Entries(children.st, children.off, count + children.count)
    ELSE decodeEntries(io, children.off, end, table, count + children.count)

EntryChildren(io, end, table, count, type, attrs) ==
    IF attrs.st # "ok" THEN Entries(attrs.st, attrs.off, count)
    ELSE IF type.hasChildren # 0
    THEN EntrySiblings(io, end, table, count + 1,
                       decodeEntries(io, attrs.off, end, table, 0))
    ELSE decodeEntries(io, attrs.off, end, table, count + 1)

DwarfEntry(io, off, end, table, count, code) ==
    IF code \notin DOMAIN table THEN Entries("ub", off, count)
    ELSE EntryChildren(io, end, table, count, table[code],
                       AttrLoop(io, off, table[code].specs, 1))

EntryCode(io, end, table, count, code) ==
    IF code.st # "ok" THEN Entries(code.st, code.off, count)
    ELSE IF code.v = 0 THEN Entries("ok", code.off, count)
    ELSE DwarfEntry(io, code.off, end, table, count, code.v)

decodeEntries(io, off, end, table, count) ==
    IF off = end THEN Entries("ok", off, count)
    ELSE EntryCode(io, end, table, count, getuleb128(io, off))

(* DwarfUnit::DwarfUnit(di, r) with r at off, for a reader with limit      *)
(* `limit' and the .debug_abbrev section at abbrevOff.                     *)
Unit(st, off, version, addrlen, table, count) ==
    [st |-> st, off |-> off, version |-> version, addrlen |-> addrlen,
     abbreviations |-> table, entries |-> count]

(* decodeEntries(entriesR, entries); r.setOffset(nextoff) *)
UnitEntries(nextoff, version, addrlen, table, e) ==
    IF e.st # "ok" THEN Unit(e.st, e.off, version, addrlen, table, e.count)
    ELSE Unit("ok", nextoff, version, addrlen, table, e.count)

(* assert(nextoff <= r.getLimit()) *)
UnitAbbrevs(io, limit, nextoff, version, addrlen, t) ==
    IF t.st # "ok" THEN Unit(t.st, addrlen.off, version, addrlen.v, t.table, 0)
    ELSE IF nextoff > limit THEN Unit("abort", addrlen.off, version, addrlen.v, t.table, 0)
    ELSE UnitEntries(nextoff, version, addrlen.v, t.table,
                     decodeEntries(io, addrlen.off, nextoff, t.table, 0))

UnitAddrLen(io, limit, abbrevOff, nextoff, version, aoff, addrlen) ==
    IF addrlen.st # "ok" THEN Unit(addrlen.st, addrlen.off, version, 0, <<>>, 0)
    ELSE UnitAbbrevs(io, limit, nextoff, version, addrlen,
                     AbbrevLoop(io, abbrevOff + aoff, <<>>))

UnitAbbrevOff(io, limit, abbrevOff, nextoff, version, aoff) ==
    IF aoff.st # "ok" THEN Unit(aoff.st, aoff.off, version, 0, <<>>, 0)
    ELSE UnitAddrLen(io, limit, abbrevOff, nextoff, version, aoff.v,
                     getu8(io, aoff.off))

(* off = version >= 3 ? r.getuint(ELF_BITS/8) : r.getu32() *)
UnitVersion(io, limit, abbrevOff, nextoff, version) ==
    IF version.st # "ok" THEN Unit(version.st, version.off, 0, 0, <<>>, 0)
    ELSE UnitAbbrevOff(io, limit, abbrevOff, nextoff, version.v,
                       IF version.v >= 3 THEN getuint(io, version.off, 8)
                       ELSE getu32(io, version.off))

UnitLength(io, limit, abbrevOff, length) ==
    IF length.st # "ok" THEN Unit(length.st, length.off, 0, 0, <<>>, 0)
    ELSE UnitVersion(io, limit, abbrevOff, length.off + length.v,
                     getu16(io, length.off))

DwarfUnit(io, off, limit, abbrevOff) ==
    UnitLength(io, limit, abbrevOff, getlength(io, off))

-----------------------------------------------------------------------------
(* Call frame rows: DwarfRegisterUnwind is a type and a union u; field a   *)
(* is the union's first word (u.offset, u.reg, u.expression.offset), field *)
(* b its second (u.expression.length).  The constructor sets the types and *)
(* cfaReg and leaves the unions indeterminate.                             *)

Rule(type, a, b) == [type |-> type, a |-> a, b |-> b]

DwarfCallFrame(g) ==
    [registers |-> [i \in RegNos |-> Rule("UNDEF", g, g)],
     cfaReg |-> 0,
     cfaValue |-> Rule("UNDEF", g, g)]

(* CFA opcodes *)
DW_CFA_advance_loc == 64
DW_CFA_offset == 128
DW_CFA_restore == 192
DW_CFA_nop == 0
DW_CFA_set_loc == 1
DW_CFA_advance_loc1 == 2
DW_CFA_advance_loc2 == 3
DW_CFA_advance_loc4 == 4
DW_CFA_offset_extended == 5
DW_CFA_restore_extended == 6
DW_CFA_undefined == 7
DW_CFA_same_value == 8
DW_CFA_register == 9
DW_CFA_remember_state == 10
DW_CFA_restore_state == 11
DW_CFA_def_cfa == 12
DW_CFA_def_cfa_register == 13
DW_CFA_def_cfa_offset == 14
DW_CFA_def_cfa_expression == 15
DW_CFA_expression == 16
DW_CFA_def_cfa_sf == 18
DW_CFA_def_cfa_offset_sf == 19
DW_CFA_val_expression == 22

AddrLen == 8

(* State of one run of the interpreter loop: reader offset, location,      *)
(* working row, remember/restore stack.                                    *)
XState(st, off, addr, frame, stack) ==
    [st |-> st, off |-> off, addr |-> addr, frame |-> frame, stack |-> stack]

XFail(s, st) == [s EXCEPT !.st = st]

(* frame.registers[reg] = rule; an index beyond the array is undefined.    *)
SetReg(s, reg, off, rule) ==
    IF reg \in RegNos
    THEN [s EXCEPT !.off = off, !.frame.registers[reg] = rule]
    ELSE XFail(s, "ub")

(* frame.registers[reg].type = type, the union left as it was.             *)
SetRegType(s, reg, off, type) ==
    IF reg \in RegNos
    THEN [s EXCEPT !.off = off, !.frame.registers[reg].type = type]
    ELSE XFail(s, "ub")

(* frame.registers[reg].type = type and the union's first word = a.        *)
SetRegA(s, reg, off, type, a) ==
    IF reg \in RegNos
    THEN [s EXCEPT !.off = off, !.frame.registers[reg].type = type,
                   !.frame.registers[reg].a = a]
    ELSE XFail(s, "ub")

(* The operands of an opcode of the inner switch, as [st, v1, v2, off].    *)
One(r) == [st |-> r.st, v1 |-> r.v, v2 |-> 0, off |-> r.off]
Two(x, y) == [st |-> y.st, v1 |-> x.v, v2 |-> y.v, off |-> y.off]

(* A ULEB128 operand x has been read; the second is ULEB128 or SLEB128.    *)
Second(io, x, signed) ==
    IF x.st # "ok" THEN One(x)
    ELSE Two(x, IF signed THEN getsleb128(io, x.off) ELSE getuleb128(io, x.off))

Uleb2(io, off) == Second(io, getuleb128(io, off), FALSE)
UlebSleb(io, off) == Second(io, getuleb128(io, off), TRUE)

(* What each case of the inner switch reads from the reader.               *)
Operands(io, op, o1) ==
    CASE op \in {DW_CFA_nop, DW_CFA_remember_state, DW_CFA_restore_state} ->
            [st |-> "ok", v1 |-> 0, v2 |-> 0, off |-> o1]
      [] op = DW_CFA_set_loc -> One(getuint(io, o1, AddrLen))
      [] op = DW_CFA_advance_loc1 -> One(getu8(io, o1))
      [] op = DW_CFA_advance_loc2 -> One(getu16(io, o1))
      [] op = DW_CFA_advance_loc4 -> One(getu32(io, o1))
      [] op \in {DW_CFA_offset_extended, DW_CFA_register, DW_CFA_def_cfa,
                 DW_CFA_val_expression, DW_CFA_expression} -> Uleb2(io, o1)
      [] op = DW_CFA_def_cfa_sf -> UlebSleb(io, o1)
      [] op \in {DW_CFA_restore_extended, DW_CFA_undefined, DW_CFA_same_value,
                 DW_CFA_def_cfa_register, DW_CFA_def_cfa_offset,
                 DW_CFA_def_cfa_offset_sf, DW_CFA_def_cfa_expression} ->
            One(getuleb128(io, o1))
      [] OTHER -> [st |-> "abort", v1 |-> 0, v2 |-> 0, off |-> o1]

(* What each case of the inner switch does with its operands u.            *)
Effect(cie, dframe, s, op, u) ==
    IF u.st # "ok" THEN XFail([s EXCEPT !.off = u.off], u.st)
    ELSE
    CASE op = DW_CFA_nop -> [s EXCEPT !.off = u.off]
      [] op = DW_CFA_set_loc -> [s EXCEPT !.off = u.off, !.addr = u.v1]
      [] op \in {DW_CFA_advance_loc1, DW_CFA_advance_loc2, DW_CFA_advance_loc4} ->
            [s EXCEPT !.off = u.off,
                      !.addr = WAdd(s.addr, WMul(u.v1, cie.codeAlign))]
      [] op = DW_CFA_offset_extended ->
            SetRegA(s, u.v1, u.off, "OFFSET", WMul(u.v2, cie.dataAlign))
      [] op = DW_CFA_restore_extended ->
            IF u.v1 \in RegNos
            THEN SetReg(s, u.v1, u.off, dframe.registers[u.v1])
            ELSE XFail(s, "ub")
      [] op = DW_CFA_undefined -> SetRegType(s, u.v1, u.off, "UNDEF")
      [] op = DW_CFA_same_value -> SetRegType(s, u.v1, u.off, "SAME")
      [] op = DW_CFA_register -> SetRegA(s, u.v1, u.off, "REG", u.v2)
      [] op = DW_CFA_remember_state ->
            [s EXCEPT !.off = u.off, !.stack = <<s.frame>> \o s.stack]
      [] op = DW_CFA_restore_state ->
            IF s.stack = <<>> THEN XFail(s, "ub")
            ELSE [s EXCEPT !.off = u.off, !.frame = Head(s.stack),
                           !.stack = Tail(s.stack)]
      [] op = DW_CFA_def_cfa ->
            [s EXCEPT !.off = u.off, !.frame.cfaReg = u.v1,
                      !.frame.cfaValue.type = "OFFSET",
                      !.frame.cfaValue.a = u.v2]
      [] op = DW_CFA_def_cfa_sf ->
            [s EXCEPT !.off = u.off, !.frame.cfaReg = u.v1,
                      !.frame.cfaValue.type = "OFFSET",
                      !.frame.cfaValue.a = WMul(u.v2, cie.dataAlign)]
      [] op = DW_CFA_def_cfa_register ->
            [s EXCEPT !.off = u.off, !.frame.cfaReg = u.v1,
                      !.frame.cfaValue.type = "OFFSET"]
      [] op = DW_CFA_def_cfa_offset ->
            [s EXCEPT !.off = u.off,
                      !.frame.cfaValue.type = "OFFSET",
                      !.frame.cfaValue.a = u.v1]
      [] op = DW_CFA_def_cfa_offset_sf ->
            [s EXCEPT !.off = u.off,
                      !.frame.cfaValue.type = "OFFSET",
                      !.frame.cfaValue.a = WMul(u.v1, cie.dataAlign)]
      [] op = DW_CFA_val_expression ->
            SetReg(s, u.v1, u.off + u.v2, Rule("VAL_EXPRESSION", u.off, u.v2))
      [] op = DW_CFA_expression ->
            SetReg(s, u.v1, u.off + u.v2, Rule("EXPRESSION", u.off, u.v2))
      [] op = DW_CFA_def_cfa_expression ->
            [s EXCEPT !.off = u.off + u.v1,
                      !.frame.cfaValue = Rule("EXPRESSION", u.off, u.v1)]
      [] OTHER -> XFail(s, "abort")

(* The opcodes whose high two bits are zero (the inner switch).            *)
ExecExtended(io, cie, dframe, s, op, o1) ==
    Effect(cie, dframe, s, op, Operands(io, op, o1))

(* case DW_CFA_offset: the operand is read, then the rule is set *)
ExecOffset(cie, s, reg, u) ==
    IF u.st # "ok" THEN XFail(s, u.st)
    ELSE SetRegA(s, reg, u.off, "OFFSET", WMul(u.v, cie.dataAlign))

(* rawOp & 0xc0 and rawOp & 0x3f *)
HighBits(v) == v - (v % 64)
LowBits(v) == v % 64

(* The outer switch on the high two bits of the opcode byte b.             *)
ExecByte(io, cie, dframe, s, b) ==
    IF b.st # "ok" THEN XFail(s, b.st)
    ELSE CASE HighBits(b.v) = DW_CFA_advance_loc ->
                [s EXCEPT !.off = b.off,
                          !.addr = WAdd(s.addr, WMul(LowBits(b.v), cie.codeAlign))]
           [] HighBits(b.v) = DW_CFA_offset ->
                ExecOffset(cie, s, LowBits(b.v), getuleb128(io, b.off))
           [] HighBits(b.v) = DW_CFA_restore ->
                SetReg(s, LowBits(b.v), b.off, dframe.registers[LowBits(b.v)])
           [] OTHER -> ExecExtended(io, cie, dframe, s, LowBits(b.v), b.off)

(* One iteration of the loop of execInsns: decode and execute one opcode.  *)
ExecOp(io, cie, dframe, s) == ExecByte(io, cie, dframe, s, getu8(io, s.off))

(* while (!r.empty() && addr <= wantAddr) *)
LoopGuard(s, lim, wantAddr) == s.off # lim /\ s.addr <= wantAddr

RECURSIVE ExecLoop(_, _, _, _, _, _)
ExecLoop(io, cie, dframe, lim, wantAddr, s) ==
    IF s.st = "ok" /\ LoopGuard(s, lim, wantAddr)
    THEN ExecLoop(io, cie, dframe, lim, wantAddr, ExecOp(io, cie, dframe, s))
    ELSE s

(* if (addr || wantAddr): the default frame of the CIE is computed.        *)
NeedDefaultFrame(addr, wantAddr) == addr # 0 \/ wantAddr # 0

(* The default frame of execInsns, as the state its computation ends in:   *)
(* the nested call runs the CIE's instructions with addr = wantAddr = 0,   *)
(* for which the default frame is the freshly constructed one.             *)
DefaultFrame(io, cie, addr, wantAddr, g) ==
    IF NeedDefaultFrame(addr, wantAddr)
    THEN ExecLoop(io, cie, DwarfCallFrame(g), cie.end, 0,
                  XState("ok", cie.instructions, 0, DwarfCallFrame(g), <<>>))
    ELSE XState("ok", 0, 0, DwarfCallFrame(g), <<>>)

(* DwarfCallFrame frame = dframe; then the loop over the reader [off, lim) *)
RunInsns(io, cie, off, lim, addr, wantAddr, d) ==
    IF d.st # "ok" THEN XState(d.st, off, addr, d.frame, <<>>)
    ELSE ExecLoop(io, cie, d.frame, lim, wantAddr,
                  XState("ok", off, addr, d.frame, <<>>))

(* DwarfCIE::execInsns on the reader [off, lim): the state the loop ends   *)
(* in; its frame is the row returned, its off the reader's offset.         *)
execInsns(io, cie, off, lim, addr, wantAddr, g) ==
    RunInsns(io, cie, off, lim, addr, wantAddr,
             DefaultFrame(io, cie, addr, wantAddr, g))

-----------------------------------------------------------------------------
(* Process memory (Process::io): the readable words, by address.  A read   *)
(* of an address outside them is an incomplete read: readObj throws.       *)

ReadMem(mem, a) ==
    IF a \in DOMAIN mem THEN Ok(mem[a], 0) ELSE Fail("throw", 0)

(* DWARF expression opcodes *)
DW_OP_deref == 6
DW_OP_const2s == 11
DW_OP_const4u == 12
DW_OP_const4s == 13
DW_OP_minus == 28
DW_OP_plus == 34
DW_OP_breg0 == 112
DW_OP_breg31 == 143

EState(st, off, stack) == [st |-> st, off |-> off, stack |-> stack]

(* push of a value read from the reader *)
PushRead(s, c) ==
    IF c.st # "ok" THEN [s EXCEPT !.st = c.st]
    ELSE EState("ok", c.off, <<c.v>> \o s.stack)

(* case DW_OP_deref: the top of the stack is replaced by the word it       *)
(* addresses.                                                              *)
Deref(mem, s, off) ==
    IF s.stack = <<>> THEN [s EXCEPT !.st = "ub"]
    ELSE IF ReadMem(mem, Head(s.stack)).st # "ok" THEN [s EXCEPT !.st = "throw"]
    ELSE EState("ok", off, <<ReadMem(mem, Head(s.stack)).v>> \o Tail(s.stack))

(* case DW_OP_breg0 ... DW_OP_breg31 *)
PushBreg(rg, s, reg, k) ==
    IF k.st # "ok" THEN [s EXCEPT !.st = k.st]
    ELSE EState("ok", k.off, <<WAdd(rg[reg], k.v)>> \o s.stack)

(* One opcode b of dwarfEvalExpr; the head of `stack' is its top.  top()   *)
(* and pop() of an empty std::stack are undefined.                         *)
EvalByte(io, mem, rg, s, b) ==
    IF b.st # "ok" THEN [s EXCEPT !.st = b.st]
    ELSE CASE b.v = DW_OP_deref -> Deref(mem, s, b.off)
           [] b.v = DW_OP_const2s -> PushRead(s, getu16(io, b.off))
           [] b.v = DW_OP_const4u \/ b.v = DW_OP_const4s ->
                PushRead(s, getu32(io, b.off))
           [] b.v = DW_OP_minus ->
                IF Len(s.stack) < 2 THEN [s EXCEPT !.st = "ub"]
                ELSE EState("ok", b.off,
                            <<WSub(s.stack[2], s.stack[1])>> \o Tail(Tail(s.stack)))
           [] b.v = DW_OP_plus ->
                IF Len(s.stack) < 2 THEN [s EXCEPT !.st = "ub"]
                ELSE EState("ok", b.off,
                            <<WAdd(s.stack[2], s.stack[1])>> \o Tail(Tail(s.stack)))
           [] b.v >= DW_OP_breg0 /\ b.v <= DW_OP_breg31 ->
                PushBreg(rg, s, b.v - DW_OP_breg0, getsleb128(io, b.off))
           [] OTHER -> [s EXCEPT !.st = "abort"]

EvalOp(io, mem, rg, s) == EvalByte(io, mem, rg, s, getu8(io, s.off))

RECURSIVE EvalLoop(_, _, _, _, _)
EvalLoop(io, mem, rg, lim, s) ==
    IF s.st = "ok" /\ s.off # lim
    THEN EvalLoop(io, mem, rg, lim, EvalOp(io, mem, rg, s))
    ELSE s

(* intmax_t rv = stack->top(); stack->pop(); return rv *)
EvalResult(e) ==
    IF e.st # "ok" THEN [st |-> e.st, v |-> 0, stack |-> e.stack]
    ELSE IF e.stack = <<>> THEN [st |-> "ub", v |-> 0, stack |-> <<>>]
    ELSE [st |-> "ok", v |-> Head(e.stack), stack |-> Tail(e.stack)]

(* dwarfEvalExpr: [st, v, stack]: the value returned and the caller's      *)
(* stack after the call (the result has been popped from it).              *)
dwarfEvalExpr(io, mem, off, len, rg, stack) ==
    EvalResult(EvalLoop(io, mem, rg, off + len, EState("ok", off, stack)))

(* stack.top() after dwarfEvalExpr has popped its result *)
TopAfter(e) ==
    IF e.st # "ok" THEN Fail(e.st, 0)
    ELSE IF e.stack = <<>> THEN Fail("ub", 0)
    ELSE Ok(Head(e.stack), 0)

(* A CFA that leaves the offset of the rule out. *)
CfaRegisterOnly(io, mem, frame, rg) ==
    IF frame.cfaReg \in RegNos THEN Ok(rg[frame.cfaReg], 0) ELSE Fail("ub", 0)

(* dwarfGetReg with an index beyond reg[] is undefined.                    *)
(* DwarfInfo::getCFA *)
getCFA(io, mem, frame, rg) ==
    CASE frame.cfaValue.type = "OFFSET" ->
            IF frame.cfaReg \in RegNos
            THEN Ok(WAdd(rg[frame.cfaReg], frame.cfaValue.a), 0)
            ELSE Fail("ub", 0)
      [] frame.cfaValue.type = "EXPRESSION" ->
            TopAfter(dwarfEvalExpr(io, mem, frame.cfaValue.a, frame.cfaValue.b,
                                   rg, <<>>))
      [] OTHER -> Fail("abort", 0)

-----------------------------------------------------------------------------
(* The architecture register table (dwarf/archreg.h, x86-64): the DWARF    *)
(* numbers that have a REGMAP entry, the stack pointer and the ip.         *)

ArchRegs == 0 .. 16
CFA_RESTORE_REGNO == 7
IPREG == 16

dwarfIsArchReg(regno) == regno \in ArchRegs

(* Process::findObject: the load bias of the first object with a PT_LOAD   *)
(* segment that holds addr.                                                *)
SegmentHolds(obj, addr) ==
    \E k \in 1 .. Len(obj.segments) :
        LET addrReloc == WSub(addr, obj.reloc)
        IN  /\ addrReloc >= obj.segments[k].vaddr
            /\ addrReloc < WAdd(obj.segments[k].vaddr, obj.segments[k].memsz)

findObject(img, addr) ==
    IF SegmentHolds(img, addr)
    THEN [found |-> TRUE, reloc |-> img.reloc]
    ELSE [found |-> FALSE, reloc |-> 0]

(* fde.iloc <= addr && fde.iloc + fde.irange > addr *)
FDECovers(fde, addr) == fde.iloc <= addr /\ WAdd(fde.iloc, fde.irange) > addr

(* DwarfFrameInfo::findFDE: index of the first covering FDE, 0 if none.    *)
findFDE(fdeList, addr) ==
    IF \E k \in 1 .. Len(fdeList) : FDECovers(fdeList[k], addr)
    THEN CHOOSE k \in 1 .. Len(fdeList) :
            /\ FDECovers(fdeList[k], addr)
            /\ \A j \in 1 .. (k - 1) : ~FDECovers(fdeList[j], addr)
    ELSE 0

(* A lookup that asks .eh_frame first. *)
LookupFDEEhFirst(img, objaddr) ==
    LET d == IF img.hasDebugFrame THEN findFDE(img.debugFrame, objaddr) ELSE 0
        e == IF img.hasEhFrame THEN findFDE(img.ehFrame, objaddr) ELSE 0
    IN  IF e # 0 THEN [found |-> TRUE, section |-> "eh_frame", fde |-> img.ehFrame[e]]
        ELSE IF d # 0 THEN [found |-> TRUE, section |-> "debug_frame", fde |-> img.debugFrame[d]]
        ELSE [found |-> FALSE, section |-> "none", fde |-> <<>>]

(* The FDE dwarfUnwind uses: .debug_frame first, then .eh_frame.           *)
LookupFDE(img, objaddr) ==
    LET d == IF img.hasDebugFrame THEN findFDE(img.debugFrame, objaddr) ELSE 0
        e == IF img.hasEhFrame THEN findFDE(img.ehFrame, objaddr) ELSE 0
    IN  IF d # 0 THEN [found |-> TRUE, section |-> "debug_frame", fde |-> img.debugFrame[d]]
        ELSE IF e # 0 THEN [found |-> TRUE, section |-> "eh_frame", fde |-> img.ehFrame[e]]
        ELSE [found |-> FALSE, section |-> "none", fde |-> <<>>]

(* case EXPRESSION (the value is also read at the address computed) and   *)
(* case VAL_EXPRESSION: the register gets stack.top() after the call.      *)
ExprValue(mem, type, t) ==
    IF t.st # "ok" THEN t
    ELSE IF type = "EXPRESSION" /\ ReadMem(mem, t.v).st # "ok"
    THEN Fail("throw", 0)
    ELSE t

(* The body of the switch of dwarfUnwind for one architectural register.   *)
RuleValue(io, mem, unwind, cfa, rg, i) ==
    CASE unwind.type \in {"UNDEF", "SAME"} -> Ok(rg[i], 0)
      [] unwind.type = "OFFSET" -> ReadMem(mem, WAdd(cfa, unwind.a))
      [] unwind.type = "REG" ->
            IF unwind.a \in RegNos THEN Ok(rg[unwind.a], 0) ELSE Fail("ub", 0)
      [] unwind.type \in {"EXPRESSION", "VAL_EXPRESSION"} ->
            ExprValue(mem, unwind.type,
                      TopAfter(dwarfEvalExpr(io, mem, unwind.a, unwind.b, rg,
                                             <<cfa>>)))
      [] OTHER -> Fail("abort", 0)

(* The loop ends at the first register whose rule fails: val is the        *)
(* outcome of each register's rule.                                        *)
FirstFailure(val, bad) ==
    [st |-> IF bad = {} THEN "ok"
            ELSE val[CHOOSE i \in bad : \A j \in bad : i <= j].st,
     regs |-> [i \in RegNos |-> val[i].v]]

Outcomes(val) == FirstFailure(val, {i \in RegNos : val[i].st # "ok"})

(* for (i = 0; i < MAXREG; i++): newRegs is written for the architectural *)
(* registers in ascending order, the others keep what newRegs held (g).    *)
ApplyRules(io, mem, frame, cfa, rg, g) ==
    Outcomes([i \in RegNos |->
                 IF dwarfIsArchReg(i)
                 THEN RuleValue(io, mem, frame.registers[i], cfa, rg, i)
                 ELSE Ok(g, 0)])

(* An unwind that never puts the CFA into the stack pointer. *)
KeepNewRegs(frame, newRegs, cfa) == newRegs

(* if (frame.registers[CFA_RESTORE_REGNO].type == UNDEF) newRegs[..] = cfa *)
RestoreCFA(frame, newRegs, cfa) ==
    IF frame.registers[CFA_RESTORE_REGNO].type = "UNDEF"
    THEN [newRegs EXCEPT ![CFA_RESTORE_REGNO] = cfa]
    ELSE newRegs

(* A row computed for the return address itself. *)
WantAddrNoBias(objaddr) == objaddr

(* objaddr - 1, the address the row is computed for *)
WantAddr(objaddr) == WSub(objaddr, 1)

UResult(st, pc, newRegs, cfa, x, look, objaddr, rg) ==
    [st |-> st, pc |-> pc, newRegs |-> newRegs, callee |-> rg, cfa |-> cfa,
     frame |-> x.frame, xst |-> x.st, xoff |-> x.off, xaddr |-> x.addr,
     found |-> look.found, section |-> look.section, fde |-> look.fde,
     objaddr |-> objaddr]

NoRow(g) == XState("none", 0, 0, DwarfCallFrame(g), <<>>)

(* memcpy(regs, newRegs, sizeof newRegs); return newRegs[fde->cie->rar] *)
UnwindReturn(rg, look, objaddr, x, cfa, newRegs) ==
    IF look.fde.cie.rar \notin RegNos
    THEN UResult("ub", 0, newRegs, cfa, x, look, objaddr, rg)
    ELSE UResult("ok", newRegs[look.fde.cie.rar], newRegs, cfa, x, look,
                 objaddr, rg)

(* after the register loop: the stack pointer, then the return *)
UnwindRegs(rg, look, objaddr, x, cfa, acc) ==
    IF acc.st # "ok" THEN UResult(acc.st, 0, rg, cfa, x, look, objaddr, rg)
    ELSE UnwindReturn(rg, look, objaddr, x, cfa,
                      RestoreCFA(x.frame, acc.regs, cfa))

(* after getCFA: the register loop *)
UnwindCFA(img, rg, g, look, objaddr, x, cfa) ==
    IF cfa.st # "ok" THEN UResult(cfa.st, 0, rg, 0, x, look, objaddr, rg)
    ELSE UnwindRegs(rg, look, objaddr, x, cfa.v,
                    ApplyRules(img.io, img.mem, x.frame, cfa.v, rg, g))

(* after execInsns: the CFA *)
UnwindRow(img, rg, g, look, objaddr, x) ==
    IF x.st # "ok" THEN UResult(x.st, 0, rg, 0, x, look, objaddr, rg)
    ELSE UnwindCFA(img, rg, g, look, objaddr, x,
                   getCFA(img.io, img.mem, x.frame, rg))

(* after the FDE lookup: return 0 with no FDE, else the row for objaddr-1  *)
UnwindFDE(img, rg, g, look, objaddr) ==
    IF ~look.found THEN UResult("ok", 0, rg, 0, NoRow(g), look, objaddr, rg)
    ELSE UnwindRow(img, rg, g, look, objaddr,
                   execInsns(img.io, look.fde.cie, look.fde.instructions,
                             look.fde.end, look.fde.iloc, WantAddr(objaddr), g))

(* after findObject: the object found is dereferenced without a check      *)
UnwindObject(img, rg, g, obj, procaddr) ==
    IF ~obj.found
    THEN UResult("ub", 0, rg, 0, NoRow(g),
                 [found |-> FALSE, section |-> "none", fde |-> <<>>], procaddr, rg)
    ELSE UnwindFDE(img, rg, g, LookupFDE(img, WSub(procaddr, obj.reloc)),
                   WSub(procaddr, obj.reloc))

(* dwarfUnwind(p, regs, procaddr): st, the caller's pc returned, the       *)
(* register set left in *regs, and the intermediate values (cfa, row,      *)
(* reader offset).  newRegs starts indeterminate: g.                       *)
dwarfUnwind(img, rg, procaddr, g) ==
    UnwindObject(img, rg, g, findObject(img, procaddr), procaddr)

-----------------------------------------------------------------------------
(* Inputs of the one-step unwind: a CIE, one FDE and its instruction       *)
(* stream assembled from whole instructions, a register set, a memory.     *)

MaxInsns == 2

RECURSIVE Flatten(_)
Flatten(prog) == IF prog = <<>> THEN <<>> ELSE Head(prog) \o Flatten(Tail(prog))

(* Encoded CFA instructions (one byte sequence each) *)
I_advance1 == <<DW_CFA_advance_loc + 1>>
I_advance2 == <<DW_CFA_advance_loc + 2>>
I_offset_rbp == <<DW_CFA_offset + 6, 2>>
I_offset_rip == <<DW_CFA_offset + IPREG, 1>>
I_def_cfa_rsp8 == <<DW_CFA_def_cfa, CFA_RESTORE_REGNO, 8>>
I_def_cfa_offset16 == <<DW_CFA_def_cfa_offset, 16>>
I_restore_rip == <<DW_CFA_restore + IPREG>>
I_same_rsp == <<DW_CFA_same_value, CFA_RESTORE_REGNO>>
I_window_size == <<45>>

FdeInsns ==
    {I_advance1, I_advance2, I_offset_rbp, I_def_cfa_offset16, I_restore_rip,
     I_same_rsp, I_window_size}

Programs(set, n) == UNION {[1 .. k -> set] : k \in 0 .. n}

CiePrograms == {<<I_def_cfa_rsp8, I_offset_rip>>, <<>>}

(* The stack: a return address 8 below the CFA, for a stack pointer in the *)
(* middle of the address space and for one at its very top (CFA wraps).    *)
StackTop == W \div 2 - AddrLen
UnwindMem ==
    [a \in {StackTop - 8, StackTop, StackTop + 8, StackTop + 16,
            W - 16, W - 8, 0, 8} |-> ToWord(3 * (a \div 8) + 17)]

MkCIE(cieProg) ==
    [codeAlign |-> 1, dataAlign |-> ToWord(0 - 8), rar |-> IPREG,
     instructions |-> 0, end |-> Len(Flatten(cieProg))]

MkFDE(cieProg, fdeProg, iloc, irange) ==
    [cie |-> MkCIE(cieProg), iloc |-> iloc, irange |-> irange,
     instructions |-> Len(Flatten(cieProg)),
     end |-> Len(Flatten(cieProg)) + Len(Flatten(fdeProg)),
     prog |-> fdeProg]

MkImage(cieProg, fdeProg, iloc, reloc, mem) ==
    [io |-> Flatten(cieProg) \o Flatten(fdeProg),
     mem |-> mem,
     reloc |-> reloc,
     segments |-> <<[vaddr |-> 0, memsz |-> 64]>>,
     hasDebugFrame |-> FALSE, debugFrame |-> <<>>,
     hasEhFrame |-> TRUE,
     ehFrame |-> <<MkFDE(cieProg, fdeProg, iloc, 6)>>]

MkRegs(ip, sp, bp) ==
    [i \in RegNos |-> IF i = IPREG THEN ip
                      ELSE IF i = CFA_RESTORE_REGNO THEN sp
                      ELSE IF i = 6 THEN bp ELSE 0]

Placements == {[iloc |-> 0, reloc |-> 0], [iloc |-> 16, reloc |-> 256]}
Garbage == {0, 85}

NoResult == [st |-> "none"]

WalkIdle ==
    /\ threads = <<>> /\ cur = 0 /\ wpc = "idle" /\ frameCount = 0
    /\ prevIp = 0 /\ stacks = <<>> /\ warned = <<>> /\ steps = <<>>
    /\ ends = <<>>

LineIdle ==
    /\ lhdr = <<>> /\ lio = <<>> /\ loff = 0 /\ lstate = <<>>
    /\ matrix = <<>> /\ lpc = "idle" /\ lastOp = <<>>
    /\ marks = <<>> /\ jumped = FALSE

UnwindIdle == upc = "idle" /\ ures = NoResult

FramesIdle == dwarf = <<>>
LazyIdle == lazy = <<>>
ExprIdle == eval = <<>>

CfiIdle == cfi = <<>>
TreeIdle == tree = <<>>
SourceIdle == source = <<>>
SymbolsIdle == symbols = <<>>
LastIdle == SourceIdle /\ SymbolsIdle
LaterIdle == CfiIdle /\ TreeIdle /\ LastIdle

OtherIdle == reader = <<>> /\ FramesIdle /\ LazyIdle /\ ExprIdle /\ LaterIdle

InitUnwind ==
    /\ \E cp \in CiePrograms, fp \in Programs(FdeInsns, MaxInsns),
          pl \in Placements, d \in 0 .. 3, sp \in {StackTop, W - 8} :
            /\ image = MkImage(cp, fp, pl.iloc, pl.reloc, UnwindMem)
            /\ regs = MkRegs(pl.iloc + pl.reloc + d, sp, StackTop + 8)
    /\ garbage \in Garbage
    /\ upc = "ready"
    /\ ures = NoResult
    /\ WalkIdle
    /\ LineIdle
    /\ OtherIdle

(* One call of dwarfUnwind(p, &regs, regs[IPREG]): regs is overwritten     *)
(* only when the call gets as far as the memcpy.                           *)
Unwind ==
    /\ upc = "ready"
    /\ ures' = dwarfUnwind(image, regs, regs[IPREG], garbage)
    /\ regs' = IF ures'.st = "ok" /\ ures'.found THEN ures'.newRegs ELSE regs
    /\ upc' = "done"
    /\ UNCHANGED <<image, garbage>>
    /\ UNCHANGED walkVars
    /\ UNCHANGED lineVars
    /\ UNCHANGED otherVars

NextUnwind == Unwind

SpecUnwind == InitUnwind /\ [][NextUnwind]_vars

-----------------------------------------------------------------------------
(* The one-step unwind on rows with expression rules: an FDE whose         *)
(* instructions give one register the rule expression(bytes) or            *)
(* val_expression(bytes).                                                  *)

(* DW_OP_breg6 with the SLEB128 operand -16 (0x70) *)
E_breg6 == <<DW_OP_breg0 + 6, 112>>
E_deref == <<DW_OP_deref>>
E_const8 == <<DW_OP_const2s, 8, 0>>
E_plus == <<DW_OP_plus>>
E_minus == <<DW_OP_minus>>

(* Expressions: one that leaves the CFA below its result, ones that        *)
(* consume the CFA, the empty one, one that pops more than there is.       *)
ExprBlocks ==
    {E_breg6, E_breg6 \o E_deref, E_const8 \o E_plus, E_deref, <<>>, E_minus,
     E_breg6 \o E_minus}

(* DW_CFA_expression / DW_CFA_val_expression: register, length, bytes      *)
I_expression(opcode, reg, block) == <<opcode, reg, Len(block)>> \o block

RuleOpcodes == {DW_CFA_expression, DW_CFA_val_expression}

InitRules ==
    /\ \E opcode \in RuleOpcodes, reg \in {6, IPREG}, block \in ExprBlocks,
          pl \in Placements, d \in 1 .. 2, sp \in {StackTop, W - 16} :
            /\ image = MkImage(<<I_def_cfa_rsp8, I_offset_rip>>,
                               <<I_expression(opcode, reg, block)>>,
                               pl.iloc, pl.reloc, UnwindMem)
            /\ regs = MkRegs(pl.iloc + pl.reloc + d, sp, StackTop + 8)
    /\ garbage \in Garbage
    /\ upc = "ready"
    /\ ures = NoResult
    /\ WalkIdle
    /\ LineIdle
    /\ OtherIdle

SpecRules == InitRules /\ [][NextUnwind]_vars

-----------------------------------------------------------------------------
(* The stack walker: ThreadStack::unwind, run for one thread after the     *)
(* other.                                                                  *)

gMaxFrames == 1024
NThreads == 2

(* A loop condition that lets one more iteration through. *)
MoreFramesInclusive(fc) == fc <= gMaxFrames

(* for (...; frameCount < gMaxFrames; ...) *)
MoreFrames(fc) == fc < gMaxFrames

(* A walker that does not record the frame. *)
KeepStack(stack, ip) == stack

(* stack.push_back(prevFrame) *)
PushFrame(stack, ip) == Append(stack, ip)

(* StackFrame::unwind: no frame when no loaded object holds ip or when the *)
(* one-step unwind returns pc 0, else the caller's frame.  Undefined       *)
(* behaviour in the step may end in any of the outcomes.                   *)
Outcome(kind, pc, rg) == [kind |-> kind, pc |-> pc, regs |-> rg]

FrameOf(r, rg) ==
    CASE r.st = "ok" /\ r.pc = 0 -> {Outcome("none", 0, rg)}
      [] r.st = "ok" /\ r.pc # 0 -> {Outcome("caller", r.pc, r.newRegs)}
      [] r.st = "throw" -> {Outcome("throw", 0, rg)}
      [] r.st = "abort" -> {Outcome("abort", 0, rg)}
      [] OTHER -> {Outcome("none", 0, rg), Outcome("throw", 0, rg),
                   Outcome("crash", 0, rg)}
                  \cup {Outcome("caller", pc, rg) : pc \in Garbage \ {0}}

StackFrameUnwind(img, rg, ip, g) ==
    IF ~findObject(img, ip).found THEN {Outcome("none", 0, rg)}
    ELSE FrameOf(dwarfUnwind(img, rg, ip, g), rg)

(* The image the walker runs on: three functions that share one CIE.       *)
I_def_cfa_rsp0 == <<DW_CFA_def_cfa, CFA_RESTORE_REGNO, 0>>
WalkCieProg == <<I_def_cfa_rsp8, I_offset_rip>>
WalkFdeProgs == <<(<<>>), <<I_window_size>>, <<I_def_cfa_rsp0>>>>

(* Function k of the image covers [FunctionAt(k), FunctionAt(k + 1)). *)
FunctionSize == 2 * AddrLen
FunctionAt(k) == FunctionSize * k
F_plain == FunctionAt(1)
F_badop == FunctionAt(2)
F_loop == FunctionAt(3)

RECURSIVE Offsets(_, _)
(* start offset of each program when the programs are laid out in a row *)
Offsets(progs, from) ==
    IF progs = <<>> THEN <<>>
    ELSE <<from>> \o Offsets(Tail(progs), from + Len(Flatten(Head(progs))))

WalkMem ==
    (StackTop :> F_plain + 5) @@ (StackTop + 8 :> 0)
    @@ (3000 :> F_badop + 8) @@ (992 :> F_loop + 2) @@ (600 :> 200)
    @@ (608 :> 0) @@ (700 :> 0) @@ (800 :> 100) @@ (808 :> 0)

WalkImage ==
    LET cb == Flatten(WalkCieProg)
        cie == [codeAlign |-> 1, dataAlign |-> ToWord(0 - 8), rar |-> IPREG,
                instructions |-> 0, end |-> Len(cb)]
        offs == Offsets(WalkFdeProgs, Len(cb))
        fde(k) == [cie |-> cie, iloc |-> FunctionAt(k), irange |-> FunctionSize,
                   instructions |-> offs[k],
                   end |-> offs[k] + Len(Flatten(WalkFdeProgs[k])),
                   prog |-> WalkFdeProgs[k]]
    IN  [io |-> cb \o Flatten([k \in 1 .. Len(WalkFdeProgs) |-> Flatten(WalkFdeProgs[k])]),
         mem |-> WalkMem,
         reloc |-> 0,
         segments |-> <<[vaddr |-> 0, memsz |-> 128]>>,
         hasDebugFrame |-> FALSE, debugFrame |-> <<>>,
         hasEhFrame |-> TRUE,
         ehFrame |-> [k \in 1 .. Len(WalkFdeProgs) |-> fde(k)]]

(* Initial machine contexts of the threads *)
ThreadRegs ==
    {MkRegs(F_plain + 4, StackTop, 0),   \* one caller, then a null return address
     MkRegs(F_plain + 4, 3000, 0),       \* caller in a function with an unknown opcode
     MkRegs(F_loop + 2, 1000, 0),        \* a frame that unwinds to itself
     MkRegs(F_plain + 4, 504, 0),        \* return address in unreadable memory
     MkRegs(F_plain + 4, 600, 0),        \* caller outside every loaded object
     MkRegs(F_plain + 4, 700, 0),        \* null return address at once
     MkRegs(F_plain + 4, 800, 0)}        \* caller with no FDE

InitWalk ==
    /\ image = WalkImage
    /\ threads = [t \in 1 .. NThreads |-> MkRegs(0, 0, 0)]
    /\ garbage \in Garbage
    /\ cur = 1
    /\ wpc = "start"
    /\ regs = MkRegs(0, 0, 0)
    /\ frameCount = 0
    /\ prevIp = 0
    /\ stacks = [t \in 1 .. NThreads |-> <<>>]
    /\ warned = [t \in 1 .. NThreads |-> FALSE]
    /\ steps = [t \in 1 .. NThreads |-> <<>>]
    /\ ends = [t \in 1 .. NThreads |-> "-"]
    /\ UnwindIdle
    /\ LineIdle
    /\ OtherIdle

(* Entry of ThreadStack::unwind for a thread whose machine context is r:   *)
(* stack.clear(), the first frame set up from the context.                 *)
StartWalk ==
    /\ wpc = "start"
    /\ \E r \in ThreadRegs :
          /\ threads' = [threads EXCEPT ![cur] = r]
          /\ regs' = r
          /\ prevIp' = r[IPREG]
    /\ frameCount' = 0
    /\ stacks' = [stacks EXCEPT ![cur] = <<>>]
    /\ wpc' = "walking"
    /\ UNCHANGED <<image, garbage, cur, warned, steps, ends>>
    /\ UNCHANGED unwindVars
    /\ UNCHANGED lineVars
    /\ UNCHANGED otherVars

EndWalk(how) ==
    /\ ends' = [ends EXCEPT ![cur] = how]
    /\ wpc' = CASE how = "abort" -> "aborted"
                [] how = "crash" -> "crashed"
                [] OTHER -> "done"
    /\ warned' = [warned EXCEPT ![cur] = (how = "throw")]

(* One iteration of the loop: the frame is recorded, then unwound.         *)
WalkStep ==
    /\ wpc = "walking"
    /\ MoreFrames(frameCount)
    /\ stacks' = [stacks EXCEPT ![cur] = PushFrame(stacks[cur], prevIp)]
    /\ \E o \in StackFrameUnwind(image, regs, prevIp, garbage) :
          IF o.kind = "caller"
          THEN /\ regs' = o.regs
               /\ prevIp' = o.pc
               /\ frameCount' = frameCount + 1
               /\ steps' = [steps EXCEPT ![cur] = Append(steps[cur], o.pc)]
               /\ UNCHANGED <<wpc, warned, ends>>
          ELSE /\ EndWalk(o.kind)
               /\ UNCHANGED <<regs, prevIp, frameCount, steps>>
    /\ UNCHANGED <<image, garbage, threads, cur>>
    /\ UNCHANGED unwindVars
    /\ UNCHANGED lineVars
    /\ UNCHANGED otherVars

(* The loop condition fails: the frame cap. *)
WalkCap ==
    /\ wpc = "walking"
    /\ ~MoreFrames(frameCount)
    /\ EndWalk("cap")
    /\ UNCHANGED <<image, garbage, regs, threads, cur, frameCount, prevIp,
                   stacks, steps>>
    /\ UNCHANGED unwindVars
    /\ UNCHANGED lineVars
    /\ UNCHANGED otherVars

(* The caller goes on to the next thread. *)
NextThread ==
    /\ wpc = "done"
    /\ cur < NThreads
    /\ cur' = cur + 1
    /\ wpc' = "start"
    /\ UNCHANGED <<image, garbage, regs, threads, frameCount, prevIp, stacks,
                   warned, steps, ends>>
    /\ UNCHANGED unwindVars
    /\ UNCHANGED lineVars
    /\ UNCHANGED otherVars

NextWalk == StartWalk \/ WalkStep \/ WalkCap \/ NextThread

SpecWalk == InitWalk /\ [][NextWalk]_vars

-----------------------------------------------------------------------------
(* The line-number program: DwarfLineInfo::build from the header fields    *)
(* on.  The reader is the byte sequence lio; the table ends where lio      *)
(* ends; the directory and file tables are empty.                          *)

(* Standard and extended opcodes (dwarf/line_s.h, dwarf/line_e.h) *)
DW_LNS_copy == 1
DW_LNS_advance_pc == 2
DW_LNS_advance_line == 3
DW_LNS_set_file == 4
DW_LNS_set_column == 5
DW_LNS_negate_stmt == 6
DW_LNS_set_basic_block == 7
DW_LNS_const_add_pc == 8
DW_LNS_fixed_advance_pc == 9
DW_LNE_end_sequence == 1
DW_LNE_set_address == 2
DW_LNE_set_discriminator == 4

DwarfLineState(addr, file, line, column, is_stmt, basic_block, end_sequence) ==
    [addr |-> addr, file |-> file, line |-> line, column |-> column,
     is_stmt |-> is_stmt, basic_block |-> basic_block,
     end_sequence |-> end_sequence]

(* A reset that leaves is_stmt set, whatever the header says. *)
resetStmtSet(li) == DwarfLineState(0, 1, 1, 0, 1, 0, 0)

(* DwarfLineState::reset; is_stmt is a one-bit field. *)
reset(li) == DwarfLineState(0, 1, 1, 0, li.default_is_stmt % 2, 0, 0)

(* The header fields read one after the other; opcode_lengths is skipped   *)
(* over byte by byte, then the terminators of the two empty tables.        *)
LineHeaderOf(min, dflt, base, range, opbase) ==
    [min_insn_length |-> min, default_is_stmt |-> dflt, line_base |-> base,
     line_range |-> range, opcode_base |-> opbase]

TablesLen(opbase) == (IF opbase = 0 THEN 0 ELSE opbase - 1) + 2

HeaderFields(io, a, b, c, d, e) ==
    IF e.st # "ok" THEN [st |-> "throw", off |-> e.off, li |-> <<>>]
    ELSE IF ~CanRead(io, e.off, TablesLen(e.v))
    THEN [st |-> "throw", off |-> e.off, li |-> <<>>]
    ELSE [st |-> "ok", off |-> e.off + TablesLen(e.v),
          li |-> LineHeaderOf(a.v, b.v, c.v, d.v, e.v)]

ReadHeader(io) ==
    HeaderFields(io, getu8(io, 0), getu8(io, 1), gets8(io, 2), getu8(io, 3),
                 getu8(io, 4))

(* What one opcode does: the state after it, the reader's offset, the rows *)
(* appended, and the amount added to the address (inc) or whether the      *)
(* address was stored (set).                                               *)
LRes(st, state, off, rows, kind, inc, set) ==
    [st |-> st, state |-> state, off |-> off, rows |-> rows, kind |-> kind,
     inc |-> inc, set |-> set]

LFail(st, s, kind) == LRes(st, s, 0, <<>>, kind, 0, FALSE)

(* A special opcode that adds the line increment without line_base. *)
lineIncrNoBase(li, c) == c % li.line_range

(* int addrIncr = c / line_range; int lineIncr = c % line_range + line_base *)
addrIncr(li, c) == c \div li.line_range
lineIncr(li, c) == (c % li.line_range) + li.line_base

(* An address that is moved back by the amount. *)
SubAddr(addr, inc) == ToWord(addr - inc)

(* state.addr += inc *)
AddAddr(addr, inc) == ToWord(addr + inc)

(* dwarfStateAddRow(this, state); state.basic_block = 0 *)
AddRow(s, off, kind, inc) ==
    LRes("ok", [s EXCEPT !.basic_block = 0], off, <<s>>, kind, inc, FALSE)

(* if (c >= opcode_base): c is the opcode less opcode_base *)
SpecialOp(li, s, c, off) ==
    AddRow([s EXCEPT !.addr = AddAddr(s.addr, addrIncr(li, c) * li.min_insn_length),
                     !.line = ToWord(s.line + lineIncr(li, c))],
           off, "special", addrIncr(li, c) * li.min_insn_length)

(* case DW_LNE_set_address: state.addr = r.getuint(unit->addrlen) *)
SetAddress(s, a) ==
    IF a.st # "ok" THEN LFail(a.st, s, "set_address")
    ELSE LRes("ok", [s EXCEPT !.addr = a.v], a.off, <<>>, "set_address", 0, TRUE)

(* an operand that is read and dropped *)
Discard(s, u, kind) ==
    IF u.st # "ok" THEN LFail(u.st, s, kind)
    ELSE LRes("ok", s, u.off, <<>>, kind, 0, FALSE)

(* switch (code) of the extended opcodes *)
ExtendedCode(li, s, io, len, code) ==
    IF code.st # "ok" THEN LFail(code.st, s, "extended")
    ELSE CASE code.v = DW_LNE_end_sequence ->
                LRes("ok", reset(li), code.off, <<[s EXCEPT !.end_sequence = 1]>>,
                     "end_sequence", 0, FALSE)
           [] code.v = DW_LNE_set_address ->
                SetAddress(s, getuint(io, code.off, AddrLen))
           [] code.v = DW_LNE_set_discriminator ->
                Discard(s, getuleb128(io, code.off), "set_discriminator")
           [] OTHER -> LFail("abort", s, "extended")

(* else if (c == 0): the length, then the code *)
ExtendedLen(li, s, io, len) ==
    IF len.st # "ok" THEN LFail(len.st, s, "extended")
    ELSE ExtendedCode(li, s, io, len, getu8(io, len.off))

ExtendedOp(li, s, io, off) == ExtendedLen(li, s, io, getuleb128(io, off))

(* the standard opcodes with one operand u *)
StandardOperand(li, s, opcode, u) ==
    IF u.st # "ok" THEN LFail(u.st, s, "standard")
    ELSE CASE opcode = DW_LNS_advance_pc ->
                LRes("ok", [s EXCEPT !.addr = AddAddr(s.addr, u.v * li.min_insn_length)],
                     u.off, <<>>, "advance_pc", u.v * li.min_insn_length, FALSE)
           [] opcode = DW_LNS_fixed_advance_pc ->
                LRes("ok", [s EXCEPT !.addr = AddAddr(s.addr, u.v * li.min_insn_length)],
                     u.off, <<>>, "fixed_advance_pc", u.v * li.min_insn_length, FALSE)
           [] opcode = DW_LNS_advance_line ->
                LRes("ok", [s EXCEPT !.line = WAdd(s.line, u.v)], u.off, <<>>,
                     "advance_line", 0, FALSE)
           [] opcode = DW_LNS_set_file ->
                LRes("ok", [s EXCEPT !.file = u.v], u.off, <<>>, "set_file", 0, FALSE)
           [] OTHER ->
                LRes("ok", [s EXCEPT !.column = u.v], u.off, <<>>, "set_column", 0, FALSE)

(* switch (opcode) of the standard opcodes *)
StandardOp(li, s, io, opcode, off) ==
    CASE opcode = DW_LNS_const_add_pc ->
            LRes("ok",
                 [s EXCEPT !.addr = AddAddr(s.addr,
                        ((255 - li.opcode_base) \div li.line_range) * li.min_insn_length)],
                 off, <<>>, "const_add_pc",
                 ((255 - li.opcode_base) \div li.line_range) * li.min_insn_length, FALSE)
      [] opcode \in {DW_LNS_advance_pc, DW_LNS_set_file, DW_LNS_set_column} ->
            StandardOperand(li, s, opcode, getuleb128(io, off))
      [] opcode = DW_LNS_fixed_advance_pc ->
            StandardOperand(li, s, opcode, getu16(io, off))
      [] opcode = DW_LNS_advance_line ->
            StandardOperand(li, s, opcode, getsleb128(io, off))
      [] opcode = DW_LNS_copy -> AddRow(s, off, "copy", 0)
      [] opcode = DW_LNS_negate_stmt ->
            LRes("ok", [s EXCEPT !.is_stmt = 1 - s.is_stmt], off, <<>>,
                 "negate_stmt", 0, FALSE)
      [] opcode = DW_LNS_set_basic_block ->
            LRes("ok", [s EXCEPT !.basic_block = 1], off, <<>>,
                 "set_basic_block", 0, FALSE)
      [] OTHER -> LFail("abort", s, "standard")

(* The body of the loop for the opcode byte c. *)
LineByte(li, s, io, c) ==
    IF c.st # "ok" THEN LFail(c.st, s, "opcode")
    ELSE IF c.v >= li.opcode_base
    THEN SpecialOp(li, s, c.v - li.opcode_base, c.off)
    ELSE IF c.v = 0 THEN ExtendedOp(li, s, io, c.off)
    ELSE StandardOp(li, s, io, c.v, c.off)

LineOp(li, s, io, off) == LineByte(li, s, io, getu8(io, off))

(* Inputs of the line VM: two headers and programs of a few opcodes.       *)
MaxLineOps == 3

Header(min, dflt, base, range, opbase) ==
    <<min, dflt, base % 256, range, opbase>>
    \o [k \in 1 .. TablesLen(opbase) |-> 0]

LineHeaders == {Header(1, 1, 0 - 3, 12, 13), Header(4, 0, 0 - 1, 4, 10)}

L_special78 == <<78>>
L_special13 == <<13>>
L_copy == <<DW_LNS_copy>>
L_advance_pc3 == <<DW_LNS_advance_pc, 3>>
L_set_file2 == <<DW_LNS_set_file, 2>>
L_negate_stmt == <<DW_LNS_negate_stmt>>
L_set_basic_block == <<DW_LNS_set_basic_block>>
L_prologue_end == <<10>>
L_end_sequence == <<0, 1, DW_LNE_end_sequence>>
L_set_address(a) ==
    <<0, 1 + AddrLen, DW_LNE_set_address, a % 256, a \div 256>>
    \o [k \in 1 .. (AddrLen - 2) |-> 0]

LineInsns ==
    {L_special78, L_special13, L_copy, L_advance_pc3, L_set_file2,
     L_negate_stmt, L_set_basic_block, L_prologue_end, L_end_sequence,
     L_set_address(2), L_set_address(W - 2)}

InitLine ==
    /\ \E h \in LineHeaders, prog \in Programs(LineInsns, MaxLineOps) :
          lio = h \o Flatten(prog)
    /\ lhdr = <<>>
    /\ loff = 0
    /\ lstate = <<>>
    /\ matrix = <<>>
    /\ lpc = "header"
    /\ lastOp = [kind |-> "none"]
    /\ marks = <<>>
    /\ jumped = FALSE
    /\ image = <<>> /\ regs = <<>> /\ garbage = 0
    /\ UnwindIdle
    /\ WalkIdle
    /\ OtherIdle

(* The header is read; DwarfLineState state(this). *)
LineHeader ==
    /\ lpc = "header"
    /\ \E h \in {ReadHeader(lio)} :
          IF h.st = "ok"
          THEN /\ lhdr' = h.li
               /\ loff' = h.off
               /\ lstate' = reset(h.li)
               /\ lpc' = "run"
          ELSE /\ lpc' = h.st
               /\ UNCHANGED <<lhdr, loff, lstate>>
    /\ UNCHANGED <<lio, matrix, lastOp, marks, jumped>>
    /\ UNCHANGED <<image, regs, garbage>>
    /\ UNCHANGED unwindVars
    /\ UNCHANGED walkVars
    /\ UNCHANGED otherVars

(* One iteration of while (r.getOffset() < end). *)
LineStep ==
    /\ lpc = "run"
    /\ loff < Len(lio)
    /\ \E r \in {LineOp(lhdr, lstate, lio, loff)} :
          /\ lastOp' = [kind |-> r.kind, st |-> r.st, byte |-> lio[loff + 1],
                        pre |-> lstate, rows |-> Len(matrix)]
          /\ IF r.st = "ok"
             THEN /\ lstate' = r.state
                  /\ loff' = r.off
                  /\ matrix' = matrix \o r.rows
                  /\ marks' = marks \o [k \in 1 .. Len(r.rows) |->
                                jumped \/ r.set \/ lstate.addr + r.inc >= W]
                  /\ jumped' = IF r.rows # <<>> THEN FALSE
                               ELSE jumped \/ r.set \/ lstate.addr + r.inc >= W
                  /\ lpc' = "run"
             ELSE /\ lpc' = r.st
                  /\ UNCHANGED <<lstate, loff, matrix, marks, jumped>>
    /\ UNCHANGED <<lhdr, lio>>
    /\ UNCHANGED <<image, regs, garbage>>
    /\ UNCHANGED unwindVars
    /\ UNCHANGED walkVars
    /\ UNCHANGED otherVars

(* The loop ends at the end of the table. *)
LineDone ==
    /\ lpc = "run"
    /\ loff >= Len(lio)
    /\ lpc' = "done"
    /\ UNCHANGED <<lhdr, lio, loff, lstate, matrix, lastOp, marks, jumped>>
    /\ UNCHANGED <<image, regs, garbage>>
    /\ UNCHANGED unwindVars
    /\ UNCHANGED walkVars
    /\ UNCHANGED otherVars

NextLine == LineHeader \/ LineStep \/ LineDone

SpecLine == InitLine /\ [][NextLine]_vars

-----------------------------------------------------------------------------
(* A DWARFReader at work: a cursor [off, end) over the bytes of a file,    *)
(* and the operations a decoder applies to it one after the other.  An     *)
(* exception leaves the decoder; the reader is not used after it.          *)

MaxReaderOps == 2

(* LEB128 as the DWARF standard defines it, of a value given by its bits.  *)
Top(bits) == CHOOSE b \in bits : \A c \in bits : c <= b

Group(bits, k) == BitSum({b \in 0 .. 6 : (7 * k + b) \in bits}, 7)

UlebLen(bits) == IF bits = {} THEN 1 ELSE (Top(bits) \div 7) + 1

UlebEncode(bits) ==
    [k \in 1 .. UlebLen(bits) |->
        Group(bits, k - 1) + (IF k < UlebLen(bits) THEN 128 ELSE 0)]

Negative(bits) == (LongBits - 1) \in bits

(* the bits of the value, sign-extended beyond LongBits *)
Extended(bits) ==
    bits \cup (IF Negative(bits) THEN LongBits .. (LongBits + 6) ELSE {})

(* the value fits n groups: every bit from the sign bit of the last group  *)
(* upwards equals the sign                                                 *)
FitsGroups(bits, n) ==
    \A b \in (7 * n - 1) .. (LongBits - 1) : (b \in bits) = Negative(bits)

SlebLen(bits) == CHOOSE n \in 1 .. 10 :
    FitsGroups(bits, n) /\ \A m \in 1 .. (n - 1) : ~FitsGroups(bits, m)

SlebEncode(bits) ==
    [k \in 1 .. SlebLen(bits) |->
        Group(Extended(bits), k - 1) + (IF k < SlebLen(bits) THEN 128 ELSE 0)]

(* Values: no, one or two one bits, and the complements of these. *)
BitPlaces == {0, 6, 7, 27, 28, 30, 31, 32, 35, 63}
AllBits == 0 .. (LongBits - 1)
FewBits == {{}} \cup {{a, b} : a, b \in BitPlaces}
LebValues == FewBits \cup {AllBits \ v : v \in FewBits}

(* The bytes of the file that follow the section the reader is made for. *)
Trailer == <<7, 0>>

ReaderInput(kind, bits, bytes) ==
    [kind |-> kind, bits |-> bits, io |-> bytes \o Trailer, end |-> Len(bytes)]

LengthWords ==
    {<<16, 0, 0, 0>>, <<0, 0, 0, 0>>, <<255, 255, 255, 127>>,
     <<255, 255, 255, 255, 24, 0, 0, 0, 0, 0, 0, 0>>,
     <<255, 255, 255, 255, 1, 2>>,
     <<240, 255, 255, 255>>, <<254, 255, 255, 255, 0, 0, 0, 0>>,
     <<65, 66, 0, 67>>, <<1, 2>>}

(* An aranges set: the header for an address size, padding up to offset   *)
(* `at', one tuple (5, 6) and the terminator.                              *)
Zeros(n) == [k \in 1 .. n |-> 0]
Addr(v, size) == <<v>> \o Zeros(size - 1)

ARangeBytes(size, at) ==
    <<at - 4 + 4 * size, 0, 0, 0, 2, 0, 0, 0, 0, 0, size, 0>> \o Zeros(at - 12)
    \o Addr(5, size) \o Addr(6, size) \o Zeros(2 * size)

ARangeSets == {ARangeBytes(8, 16), ARangeBytes(4, 16), ARangeBytes(2, 12),
               ARangeBytes(1, 12)}

ReaderInputs ==
    {ReaderInput("uleb", v, UlebEncode(v)) : v \in LebValues}
    \cup {ReaderInput("sleb", v, SlebEncode(v)) : v \in LebValues}
    \cup {ReaderInput("raw", {}, w) : w \in LengthWords}
    \cup {ReaderInput("aranges", {}, w) : w \in ARangeSets}

InitReader ==
    /\ \E i \in ReaderInputs :
          reader = [io |-> i.io, off |-> 0, end |-> i.end, pc |-> "run", n |-> 0,
                    kind |-> i.kind, bits |-> i.bits,
                    last |-> [op |-> "none"]]
    /\ image = <<>> /\ regs = <<>> /\ garbage = 0
    /\ UnwindIdle
    /\ WalkIdle
    /\ LineIdle
    /\ FramesIdle
    /\ LazyIdle
    /\ ExprIdle
    /\ LaterIdle

(* bool empty() { return off == end; } *)
empty(r) == r.off = r.end

(* void skip(uintmax_t amount) { off += amount; } *)
skip(off, amount) == [st |-> "ok", v |-> 0, off |-> off + amount]

(* The reader after an operation whose outcome is res. *)
After(op, arg, res) ==
    [reader EXCEPT !.off = res.off,
                   !.n = @ + 1,
                   !.pc = IF res.st = "ok" THEN "run" ELSE res.st,
                   !.last = [op |-> op, arg |-> arg, pre |-> reader.off, res |-> res]]

CanOperate == reader # <<>> /\ reader.pc = "run" /\ reader.n < MaxReaderOps

Operate(op, arg, res) ==
    /\ CanOperate
    /\ reader' = After(op, arg, res)
    /\ UNCHANGED <<image, regs, garbage>>
    /\ UNCHANGED unwindVars
    /\ UNCHANGED walkVars
    /\ UNCHANGED lineVars
    /\ UNCHANGED restVars

ReadU8 == CanOperate /\ Operate("getu8", 0, getu8(reader.io, reader.off))
ReadS8 == CanOperate /\ Operate("gets8", 0, gets8(reader.io, reader.off))
ReadU16 == CanOperate /\ Operate("getu16", 0, getu16(reader.io, reader.off))
ReadU32 == CanOperate /\ Operate("getu32", 0, getu32(reader.io, reader.off))
ReadUint ==
    /\ CanOperate
    /\ \E len \in {2, 8} : Operate("getuint", len, getuint(reader.io, reader.off, len))
ReadUleb == CanOperate /\ Operate("getuleb128", 0, getuleb128(reader.io, reader.off))
ReadSleb == CanOperate /\ Operate("getsleb128", 0, getsleb128(reader.io, reader.off))
ReadString == CanOperate /\ Operate("getstring", 0, getstring(reader.io, reader.off))
ReadLength == CanOperate /\ Operate("getlength", 0, getlength(reader.io, reader.off))
ReadARangeSet ==
    CanOperate /\ Operate("DwarfARangeSet", 0, DwarfARangeSet(reader.io, reader.off))
Skip ==
    /\ CanOperate
    /\ \E amount \in {1, 4} : Operate("skip", amount, skip(reader.off, amount))

NextReader ==
    \/ ReadU8 \/ ReadS8 \/ ReadU16 \/ ReadU32 \/ ReadUint \/ ReadUleb
    \/ ReadSleb \/ ReadString \/ ReadLength \/ ReadARangeSet \/ Skip

SpecReader == InitReader /\ [][NextReader]_vars

-----------------------------------------------------------------------------
(* Construction of a DwarfInfo for one ELF object, then one-step unwinds   *)
(* through it.  Inputs: objects with a .debug_frame and an .eh_frame made  *)
(* of one CIE and one FDE each, placed at sh_offset 0 or further on.       *)

(* The four bytes of a 32-bit value, least significant first. *)
Le32(v) ==
    IF v >= 0
    THEN <<v % 256, (v \div 256) % 256, (v \div 65536) % 256, (v \div 16777216) % 256>>
    ELSE <<((v + 2147483647) + 1) % 256, (((v + 2147483647) + 1) \div 256) % 256,
           (((v + 2147483647) + 1) \div 65536) % 256,
           ((((v + 2147483647) + 1) \div 16777216) % 256) + 128>>

(* DW_CFA_def_cfa r7, 8; DW_CFA_offset r16, 1; padding *)
CieInsns == I_def_cfa_rsp8 \o I_offset_rip

(* An entry: the length of what follows, then what follows *)
Entry(body) == Le32(Len(body)) \o body

(* A CIE of .eh_frame with augmentation "zR" and pointer encoding enc *)
EhCie(enc) ==
    Entry(Le32(0) \o <<1, Aug_z, Aug_R, 0, 1, 120, IPREG, 1, enc>>
          \o CieInsns \o Zeros(2))

(* A CIE of .eh_frame with the augmentation string aug and the            *)
(* augmentation data `data'                                                *)
EhCieAug(aug, data) ==
    Entry(Le32(0) \o <<1>> \o aug \o <<0, 1, 120, IPREG, Len(data)>> \o data
          \o CieInsns \o Zeros(2))

(* Augmentations: an unknown character ('B') before and after the 'R',    *)
(* and "zPLR" with a personality routine, an LSDA encoding, a pointer      *)
(* encoding.                                                               *)
Aug_B == 66

Augmentations ==
    [unknown_first |-> [aug |-> <<Aug_z, Aug_B, Aug_R>>,
                        data |-> <<9, DW_EH_PE_udata4>>],
     unknown_last |-> [aug |-> <<Aug_z, Aug_R, Aug_B>>,
                       data |-> <<DW_EH_PE_udata4, 9>>],
     personality |-> [aug |-> <<Aug_z, Aug_P, Aug_L, Aug_R>>,
                      data |-> <<DW_EH_PE_udata4, 48, 0, 0, 0,
                                 DW_EH_PE_absptr, DW_EH_PE_udata4>>]]

AugKinds == DOMAIN Augmentations

(* Pointer encodings with a base other than absolute and pcrel             *)
RelEncodings ==
    [textrel |-> DW_EH_PE_textrel + DW_EH_PE_udata4,
     aligned |-> DW_EH_PE_aligned + DW_EH_PE_udata4]

RelKinds == DOMAIN RelEncodings

(* A CIE of .debug_frame, without augmentation *)
DebugCie ==
    Entry(<<255, 255, 255, 255>> \o <<1, 0, 1, 120, IPREG>> \o CieInsns \o Zeros(2))

(* An FDE of .eh_frame at offset `at': for a pc-relative encoding the      *)
(* address is stored relative to the offset of its field.                  *)
EhFde(at, id, enc, iloc, irange) ==
    Entry(Le32(id) \o Le32(IF enc \div 16 = 1 THEN iloc - (at + 8) ELSE iloc)
          \o Le32(irange) \o <<0>> \o Zeros(3))

DebugFde(id, iloc, irange) ==
    Entry(Le32(id) \o Le32(iloc) \o Le32(irange) \o Zeros(4))

EhCieLen == Len(EhCie(DW_EH_PE_udata4))
DebugCieLen == Len(DebugCie)
FdeLen == Len(DebugFde(0, 0, 0))

(* The code ranges of the FDEs: [0, 6) in .debug_frame, [0, 22) in .eh_frame *)
FdeRanges == [debug_frame |-> 6, eh_frame |-> 22]
EhRange == FdeRanges.eh_frame
DebugRange == FdeRanges.debug_frame

NoSection == [present |-> FALSE, off |-> 0, size |-> 0, bytes |-> <<>>,
              entries |-> <<>>, kind |-> "absent"]

Section(kind, at, bytes, entries) ==
    [present |-> TRUE, off |-> at, size |-> Len(bytes), bytes |-> bytes,
     entries |-> entries, kind |-> kind]

FdeAt(at, id) == [fde |-> TRUE, at |-> at, id |-> id]
CieAt(at) == [fde |-> FALSE, at |-> at, id |-> 0]

(* .eh_frame at file offset `at': the CIE first and the FDE after it, its  *)
(* id measured from the id field ("field") or from the start of the entry  *)
(* ("entry"); or the FDE first; a zero length ends the section.            *)
EhKinds ==
    {"field", "entry", "fde-first", "pcrel", "absptr", "omit", "unreadable"}
        \cup AugKinds \cup RelKinds

(* The CIE with the augmentation a, and its FDE after it *)
AugSection(kind, at, a) ==
    Section(kind, at,
            EhCieAug(a.aug, a.data)
              \o EhFde(at + Len(EhCieAug(a.aug, a.data)),
                       Len(EhCieAug(a.aug, a.data)) + 4, DW_EH_PE_udata4, 0, EhRange)
              \o Zeros(4),
            <<CieAt(at), FdeAt(at + Len(EhCieAug(a.aug, a.data)),
                               Len(EhCieAug(a.aug, a.data)) + 4)>>)

EhSection(kind, at) ==
    CASE kind = "field" ->
            Section(kind, at, EhCie(DW_EH_PE_udata4)
                      \o EhFde(at + EhCieLen, EhCieLen + 4, DW_EH_PE_udata4, 0, EhRange)
                      \o Zeros(4),
                    <<CieAt(at), FdeAt(at + EhCieLen, EhCieLen + 4)>>)
      [] kind = "entry" ->
            Section(kind, at, EhCie(DW_EH_PE_udata4)
                      \o EhFde(at + EhCieLen, EhCieLen, DW_EH_PE_udata4, 0, EhRange)
                      \o Zeros(4),
                    <<CieAt(at), FdeAt(at + EhCieLen, EhCieLen)>>)
      [] kind = "fde-first" ->
            Section(kind, at, EhFde(at, 4 - FdeLen, DW_EH_PE_udata4, 0, EhRange)
                      \o EhCie(DW_EH_PE_udata4) \o Zeros(4),
                    <<FdeAt(at, 4 - FdeLen), CieAt(at + FdeLen)>>)
      [] kind = "pcrel" ->
            Section(kind, at, EhCie(DW_EH_PE_pcrel + DW_EH_PE_sdata4)
                      \o EhFde(at + EhCieLen, EhCieLen + 4,
                               DW_EH_PE_pcrel + DW_EH_PE_sdata4, 0, EhRange)
                      \o Zeros(4),
                    <<CieAt(at), FdeAt(at + EhCieLen, EhCieLen + 4)>>)
      [] kind = "absptr" ->
            Section(kind, at, EhCie(DW_EH_PE_absptr)
                      \o EhFde(at + EhCieLen, EhCieLen + 4, DW_EH_PE_absptr, 0, EhRange)
                      \o Zeros(4),
                    <<CieAt(at), FdeAt(at + EhCieLen, EhCieLen + 4)>>)
      [] kind = "unreadable" ->
            [present |-> TRUE, off |-> at + 512, size |-> 48, bytes |-> <<>>,
             entries |-> <<>>, kind |-> kind]
      [] kind \in AugKinds -> AugSection(kind, at, Augmentations[kind])
      [] kind \in RelKinds ->
            Section(kind, at, EhCie(RelEncodings[kind])
                      \o EhFde(at + EhCieLen, EhCieLen + 4, RelEncodings[kind],
                               0, EhRange)
                      \o Zeros(4),
                    <<CieAt(at), FdeAt(at + EhCieLen, EhCieLen + 4)>>)
      [] OTHER -> NoSection

(* .debug_frame at file offset `at': the id of the FDE is the offset of    *)
(* the CIE in the section.                                                 *)
DebugKinds == {"cie-first", "fde-first", "omit", "unreadable"}

DebugSection(kind, at) ==
    CASE kind = "cie-first" ->
            Section(kind, at, DebugCie \o DebugFde(0, 0, DebugRange),
                    <<CieAt(at), FdeAt(at + DebugCieLen, 0)>>)
      [] kind = "fde-first" ->
            Section(kind, at, DebugFde(FdeLen, 0, DebugRange) \o DebugCie,
                    <<FdeAt(at, FdeLen), CieAt(at + FdeLen)>>)
      [] kind = "unreadable" ->
            [present |-> TRUE, off |-> at + 512, size |-> 40, bytes |-> <<>>,
             entries |-> <<>>, kind |-> kind]
      [] OTHER -> NoSection

Pads == {0, 64}

(* The object: padding, .debug_frame, .eh_frame *)
ObjectOf(pad, d, e) ==
    [io |-> Zeros(pad) \o d.bytes \o e.bytes, base |-> 0, debug_frame |-> d,
     eh_frame |-> e]

Object(pad, dk, ek) ==
    ObjectOf(pad, DebugSection(dk, pad),
             EhSection(ek, pad + Len(DebugSection(dk, pad).bytes)))

FramePcs == {2, 18, 40}

NullFrame == [st |-> "null", cies |-> <<>>, fdeList |-> <<>>, refs |-> <<>>]

ReaderIdle == reader = <<>>

InitFrames ==
    /\ \E pad \in Pads, dk \in DebugKinds, ek \in EhKinds :
          /\ dwarf = [obj |-> Object(pad, dk, ek), pc |-> "eh_frame",
                      ehFrame |-> NullFrame, debugFrame |-> NullFrame,
                      log |-> <<>>]
          /\ image = [io |-> Object(pad, dk, ek).io, mem |-> UnwindMem, reloc |-> 0,
                      segments |-> <<[vaddr |-> 0, memsz |-> 64]>>,
                      hasDebugFrame |-> FALSE, debugFrame |-> <<>>,
                      hasEhFrame |-> FALSE, ehFrame |-> <<>>]
    /\ \E pc \in FramePcs : regs = MkRegs(pc, StackTop, StackTop + 8)
    /\ garbage \in Garbage
    /\ UnwindIdle
    /\ WalkIdle
    /\ LineIdle
    /\ ReaderIdle
    /\ LazyIdle
    /\ ExprIdle
    /\ LaterIdle

(* new DwarfFrameInfo(this, reader, type) for the section header sh, 0     *)
(* without the section.                                                    *)
NewFrameInfo(obj, sh, type) ==
    IF sh.present THEN DwarfFrameInfo(obj.io, sh.off, sh.size, type, obj.base)
    ELSE NullFrame

(* try { ... } catch (const Exception &ex) { xFrame = 0; clog << ... } *)
Caught(f) == IF f.st = "throw" THEN NullFrame ELSE f
Logged(log, f, type) == IF f.st = "throw" THEN Append(log, type) ELSE log
Survives(f) == f.st \in {"ok", "null", "throw"}

Constructing(type) == dwarf # <<>> /\ dwarf.pc = type

(* The constructor of DwarfInfo, as far as ehFrame. *)
EhFrameDecoded(f) ==
    /\ dwarf' = [dwarf EXCEPT !.ehFrame = Caught(f),
                              !.log = Logged(@, f, FI_EH_FRAME),
                              !.pc = IF Survives(f) THEN FI_DEBUG_FRAME ELSE f.st]
    /\ image' = [image EXCEPT !.hasEhFrame = f.st = "ok",
                              !.ehFrame = Caught(f).fdeList]
    /\ UNCHANGED <<regs, garbage>>
    /\ UNCHANGED unwindVars
    /\ UNCHANGED walkVars
    /\ UNCHANGED lineVars
    /\ UNCHANGED <<reader, lazy, eval, laterVars>>

DecodeEhFrame ==
    /\ Constructing(FI_EH_FRAME)
    /\ EhFrameDecoded(NewFrameInfo(dwarf.obj, dwarf.obj.eh_frame, FI_EH_FRAME))

(* The rest of the constructor: debugFrame.  The object can be unwound     *)
(* through once the constructor has returned.                              *)
DebugFrameDecoded(f) ==
    /\ dwarf' = [dwarf EXCEPT !.debugFrame = Caught(f),
                              !.log = Logged(@, f, FI_DEBUG_FRAME),
                              !.pc = IF Survives(f) THEN "done" ELSE f.st]
    /\ image' = [image EXCEPT !.hasDebugFrame = f.st = "ok",
                              !.debugFrame = Caught(f).fdeList]
    /\ upc' = IF Survives(f) THEN "ready" ELSE upc
    /\ UNCHANGED <<regs, garbage, ures>>
    /\ UNCHANGED walkVars
    /\ UNCHANGED lineVars
    /\ UNCHANGED <<reader, lazy, eval, laterVars>>

DecodeDebugFrame ==
    /\ Constructing(FI_DEBUG_FRAME)
    /\ DebugFrameDecoded(NewFrameInfo(dwarf.obj, dwarf.obj.debug_frame, FI_DEBUG_FRAME))

NextFrames == DecodeEhFrame \/ DecodeDebugFrame \/ Unwind

SpecFrames == InitFrames /\ [][NextFrames]_vars

-----------------------------------------------------------------------------
(* The lazily built indexes of a DwarfInfo: units(), pubnames() and        *)
(* ranges(), called in any order.  Inputs: objects with two compile units, *)
(* two pubnames units and two aranges sets, complete, or with the file     *)
(* ending inside the second unit of one of the sections.                   *)

MaxCalls == 3

(* Each accessor's loop: the container so far and how the loop ended.      *)
(* Every element carries the offset it was decoded at.                     *)
Index(st, items) == [st |-> st, items |-> items]

RECURSIVE PubnamesLoop(_, _, _, _)
PubnamesPush(io, off, end, items, u) ==
    IF u.st # "ok" THEN Index(u.st, items)
    ELSE PubnamesLoop(io, u.off, end, Append(items, [at |-> off, unit |-> u]))

(* while (!r.empty()) pubnameUnits.push_back(DwarfPubnameUnit(r)) *)
PubnamesLoop(io, off, end, items) ==
    IF off = end THEN Index("ok", items)
    ELSE PubnamesPush(io, off, end, items, DwarfPubnameUnit(io, off))

RECURSIVE RangesLoop(_, _, _, _)
RangesPush(io, off, end, items, a) ==
    IF a.st # "ok" THEN Index(a.st, items)
    ELSE RangesLoop(io, a.off, end, Append(items, [at |-> off, unit |-> a]))

(* while (!r.empty()) aranges.push_back(DwarfARangeSet(r)) *)
RangesLoop(io, off, end, items) ==
    IF off = end THEN Index("ok", items)
    ELSE RangesPush(io, off, end, items, DwarfARangeSet(io, off))

RECURSIVE UnitsLoop(_, _, _, _, _, _)
UnitsPut(io, start, off, end, abbrevOff, items, u) ==
    IF u.st # "ok" THEN Index(u.st, items)
    ELSE UnitsLoop(io, start, u.off, end, abbrevOff, Put(items, off - start, u))

(* while (!reader.empty()) unitsm[reader.getOffset() - info->sh_offset] =  *)
(* DwarfUnit(this, reader)                                                 *)
UnitsLoop(io, start, off, end, abbrevOff, items) ==
    IF off = end THEN Index("ok", items)
    ELSE UnitsPut(io, start, off, end, abbrevOff, items,
                  DwarfUnit(io, off, end, abbrevOff))

(* Input sections *)
AbbrevBytes == <<1, 17, 1, 3, DW_FORM_string, 0, 0,
                 2, 46, 0, 11, DW_FORM_data1, 0, 0, 0>>

InfoUnit(name) == Le32(13) \o <<2, 0>> \o Le32(0) \o <<8>> \o <<1, name, 0, 2, 5, 0>>
InfoBytes == InfoUnit(97) \o InfoUnit(98)

PubnamesUnit(at, name) ==
    Le32(20) \o <<2, 0>> \o Le32(at) \o Le32(17) \o Le32(11) \o <<name, 0>> \o Le32(0)
PubnamesBytes == PubnamesUnit(0, 109) \o PubnamesUnit(17, 110)

ARangesBytes == ARangeBytes(8, 16) \o ARangeBytes(8, 16)

SectionsOf(cut) ==
    CASE cut = "info" -> <<"pubnames", "aranges", "info">>
      [] cut = "pubnames" -> <<"info", "aranges", "pubnames">>
      [] OTHER -> <<"info", "pubnames", "aranges">>

BytesOf(name) ==
    CASE name = "info" -> InfoBytes
      [] name = "pubnames" -> PubnamesBytes
      [] OTHER -> ARangesBytes

Cuts == {"none", "info", "pubnames", "aranges"}
CutBy(cut) == IF cut = "none" THEN 0 ELSE 1

(* offset of the k-th section: after .debug_abbrev and the sections before *)
RECURSIVE SectionAt(_, _)
SectionAt(order, k) ==
    IF k = 1 THEN Len(AbbrevBytes)
    ELSE SectionAt(order, k - 1) + Len(BytesOf(order[k - 1]))

Shdr(order, name) ==
    [off |-> SectionAt(order, CHOOSE k \in 1 .. 3 : order[k] = name),
     size |-> Len(BytesOf(name))]

LazyFile(order, cut) ==
    SubSeq(AbbrevBytes \o BytesOf(order[1]) \o BytesOf(order[2]) \o BytesOf(order[3]),
           1, Len(AbbrevBytes) + Len(BytesOf(order[1])) + Len(BytesOf(order[2]))
               + Len(BytesOf(order[3])) - CutBy(cut))

NoShdr == [off |-> 0, size |-> 0]

Counts(u, p, r) == [units |-> u, pubnames |-> p, ranges |-> r]

(* The header of a section, 0 for a section the object does not have *)
Present(order, name, absent) == IF name = absent THEN NoShdr ELSE Shdr(order, name)

InitLazy ==
    /\ \E cut \in Cuts, absent \in Cuts :
          lazy = [io |-> LazyFile(SectionsOf(cut), cut),
                  abbrev |-> [off |-> 0, size |-> Len(AbbrevBytes)],
                  info |-> Present(SectionsOf(cut), "info", absent),
                  pubnamesh |-> Present(SectionsOf(cut), "pubnames", absent),
                  arangesh |-> Present(SectionsOf(cut), "aranges", absent),
                  unitsm |-> <<>>, pubnameUnits |-> <<>>, aranges |-> <<>>,
                  parses |-> Counts(0, 0, 0), pc |-> "run", n |-> 0,
                  first |-> [units |-> <<"none">>, pubnames |-> <<"none">>,
                             ranges |-> <<"none">>],
                  last |-> [op |-> "none", st |-> "ok", ret |-> <<>>]]
    /\ image = <<>> /\ regs = <<>> /\ garbage = 0
    /\ UnwindIdle
    /\ WalkIdle
    /\ LineIdle
    /\ ReaderIdle
    /\ FramesIdle
    /\ ExprIdle
    /\ LaterIdle

CanCall == lazy # <<>> /\ lazy.pc = "run" /\ lazy.n < MaxCalls

(* What a call leaves behind: the container, the section pointer (cleared  *)
(* only when the loop has run to its end), and what the caller got.        *)
Returned(op, x) ==
    [op |-> op, st |-> x.st, ret |-> IF x.st = "ok" THEN x.items ELSE <<>>]

FirstReturn(first, op, x) ==
    IF x.st = "ok" /\ first[op] = <<"none">> THEN [first EXCEPT ![op] = x.items]
    ELSE first

Called(op, x) ==
    [lazy EXCEPT !.n = @ + 1,
                 !.pc = IF x.st \in {"ok", "throw"} THEN "run" ELSE x.st,
                 !.last = Returned(op, x),
                 !.first = FirstReturn(@, op, x)]

LazyFrame ==
    /\ UNCHANGED <<image, regs, garbage>>
    /\ UNCHANGED unwindVars
    /\ UNCHANGED walkVars
    /\ UNCHANGED lineVars
    /\ UNCHANGED <<reader, dwarf, eval, laterVars>>

(* DwarfInfo::pubnames *)
PubnamesParsed(x) ==
    lazy' = [Called("pubnames", x) EXCEPT
                !.pubnameUnits = x.items,
                !.pubnamesh = IF x.st = "ok" THEN NoShdr ELSE @,
                !.parses.pubnames = @ + 1]

CallPubnames ==
    /\ CanCall
    /\ IF lazy.pubnamesh # NoShdr
       THEN PubnamesParsed(PubnamesLoop(lazy.io, lazy.pubnamesh.off,
                                        lazy.pubnamesh.off + lazy.pubnamesh.size,
                                        lazy.pubnameUnits))
       ELSE lazy' = Called("pubnames", Index("ok", lazy.pubnameUnits))
    /\ LazyFrame

(* DwarfInfo::units *)
UnitsParsed(x) ==
    lazy' = [Called("units", x) EXCEPT
                !.unitsm = x.items,
                !.info = IF x.st = "ok" THEN NoShdr ELSE @,
                !.parses.units = @ + 1]

CallUnits ==
    /\ CanCall
    /\ IF lazy.info # NoShdr
       THEN UnitsParsed(UnitsLoop(lazy.io, lazy.info.off, lazy.info.off,
                                  lazy.info.off + lazy.info.size, lazy.abbrev.off,
                                  lazy.unitsm))
       ELSE lazy' = Called("units", Index("ok", lazy.unitsm))
    /\ LazyFrame

(* DwarfInfo::ranges *)
RangesParsed(x) ==
    lazy' = [Called("ranges", x) EXCEPT
                !.aranges = x.items,
                !.arangesh = IF x.st = "ok" THEN NoShdr ELSE @,
                !.parses.ranges = @ + 1]

CallRanges ==
    /\ CanCall
    /\ IF lazy.arangesh # NoShdr
       THEN RangesParsed(RangesLoop(lazy.io, lazy.arangesh.off,
                                    lazy.arangesh.off + lazy.arangesh.size,
                                    lazy.aranges))
       ELSE lazy' = Called("ranges", Index("ok", lazy.aranges))
    /\ LazyFrame

NextLazy == CallPubnames \/ CallUnits \/ CallRanges

SpecLazy == InitLazy /\ [][NextLazy]_vars

-----------------------------------------------------------------------------
(* The expression evaluator, one opcode of its loop at a time.  Inputs:    *)
(* expressions of up to MaxExprOps operations over a register set and a    *)
(* memory.                                                                 *)

MaxExprOps == 2

BregOp(reg, k) ==
    [op |-> "breg", reg |-> reg, k |-> k, bytes |-> <<DW_OP_breg0 + reg>> \o SlebEncode(k)]
PlainOp(name, bytes) == [op |-> name, reg |-> 0, k |-> {}, bytes |-> bytes]

(* -16, 5, and 2^31, as 64-bit values *)
Minus16 == AllBits \ (0 .. 3)
Plus5 == {0, 2}
TwoTo31 == {31}

ExprOps ==
    {BregOp(6, Minus16), BregOp(0, Plus5), BregOp(31, TwoTo31),
     PlainOp("deref", <<DW_OP_deref>>),
     PlainOp("const2s", <<DW_OP_const2s, 240, 5>>),
     PlainOp("plus", <<DW_OP_plus>>),
     PlainOp("minus", <<DW_OP_minus>>),
     PlainOp("other", <<DW_OP_breg31 + 1>>)}

RECURSIVE ExprBytes(_)
ExprBytes(prog) ==
    IF prog = <<>> THEN <<>> ELSE Head(prog).bytes \o ExprBytes(Tail(prog))

(* reg[6] = 0x600 and the word 0xdea at 0x5f0 *)
ExprRegs == [i \in RegNos |-> IF i = 6 THEN 1536 ELSE IF i = 0 THEN 1515
                              ELSE IF i = 31 THEN 9 ELSE 0]
ExprMem == [a \in {1520, 3562} |-> IF a = 1520 THEN 3562 ELSE 77]

InitExpr ==
    /\ \E prog \in Programs(ExprOps, MaxExprOps), stack \in {<<>>, <<1520>>} :
          eval = [io |-> ExprBytes(prog) \o Trailer, lim |-> Len(ExprBytes(prog)),
                  prog |-> prog, mem |-> ExprMem, rg |-> ExprRegs,
                  s |-> EState("ok", 0, stack), pc |-> "run", n |-> 0,
                  rv |-> 0, pre |-> EState("ok", 0, stack), k |-> <<>>]
    /\ image = <<>> /\ regs = <<>> /\ garbage = 0
    /\ UnwindIdle
    /\ WalkIdle
    /\ LineIdle
    /\ ReaderIdle
    /\ FramesIdle
    /\ LazyIdle
    /\ LaterIdle

EvalFrame ==
    /\ UNCHANGED <<image, regs, garbage>>
    /\ UNCHANGED unwindVars
    /\ UNCHANGED walkVars
    /\ UNCHANGED lineVars
    /\ UNCHANGED <<reader, dwarf, lazy, laterVars>>

Evaluating == eval # <<>> /\ eval.pc = "run"

(* One pass of the body of while (!r.empty()); k is the operand a breg     *)
(* opcode decodes.                                                         *)
EvalStepped(s) ==
    eval' = [eval EXCEPT !.s = s, !.pre = eval.s, !.n = @ + 1,
                         !.pc = IF s.st = "ok" THEN "run" ELSE s.st,
                         !.k = getsleb128(eval.io, eval.s.off + 1)]

EvalStep ==
    /\ Evaluating
    /\ eval.s.off # eval.lim
    /\ EvalStepped(EvalOp(eval.io, eval.mem, eval.rg, eval.s))
    /\ EvalFrame

(* intmax_t rv = stack->top(); stack->pop(); return rv *)
EvalReturned(r) ==
    eval' = [eval EXCEPT !.s = EState(r.st, eval.s.off, r.stack), !.pre = eval.s,
                         !.rv = r.v,
                         !.pc = IF r.st = "ok" THEN "returned" ELSE r.st]

EvalReturn ==
    /\ Evaluating
    /\ eval.s.off = eval.lim
    /\ EvalReturned(EvalResult(eval.s))
    /\ EvalFrame

NextExpr == EvalStep \/ EvalReturn

SpecExpr == InitExpr /\ [][NextExpr]_vars

-----------------------------------------------------------------------------
(* The CFI interpreter, run instruction by instruction: execInsns is       *)
(* called for the same CIE, FDE and wantAddr several times over.  Each     *)
(* call has its own automatic storage, whose indeterminate content is      *)
(* chosen when the call is entered.                                        *)

MaxRuns == 2
MaxCfiOps == 2

(* SLEB128 -2 is the single byte 0x7e *)
MinusTwo == <<126>>

I_def_cfa_register_rbp == <<DW_CFA_def_cfa_register, 6>>
I_def_cfa_sf_rsp == <<DW_CFA_def_cfa_sf, CFA_RESTORE_REGNO>> \o MinusTwo
I_def_cfa_offset_sf == <<DW_CFA_def_cfa_offset_sf>> \o MinusTwo
I_def_cfa_offset_sf3 == <<DW_CFA_def_cfa_offset_sf, 3>>
I_remember_state == <<DW_CFA_remember_state>>
I_restore_state == <<DW_CFA_restore_state>>

CfiInsns ==
    {I_def_cfa_register_rbp, I_def_cfa_sf_rsp, I_def_cfa_offset_sf,
     I_def_cfa_offset_sf3, I_def_cfa_offset16, I_remember_state,
     I_restore_state, I_advance1, I_offset_rbp, I_window_size}

CfiStarts == {0, 16}

InitCfi ==
    /\ \E cp \in CiePrograms, fp \in Programs(CfiInsns, MaxCfiOps),
          iloc \in CfiStarts, d \in 0 .. 1 :
            cfi = [io |-> Flatten(cp) \o Flatten(fp),
                   fde |-> MkFDE(cp, fp, iloc, 6),
                   wantAddr |-> iloc + d,
                   pc |-> "call", g |-> 0,
                   dframe |-> <<>>, s |-> <<>>, op |-> <<>>, rows |-> <<>>]
    /\ image = <<>> /\ regs = <<>> /\ garbage = 0
    /\ UnwindIdle
    /\ WalkIdle
    /\ LineIdle
    /\ ReaderIdle
    /\ FramesIdle
    /\ LazyIdle
    /\ ExprIdle
    /\ TreeIdle
    /\ LastIdle

CfiFrame ==
    /\ UNCHANGED <<image, regs, garbage>>
    /\ UNCHANGED unwindVars
    /\ UNCHANGED walkVars
    /\ UNCHANGED lineVars
    /\ UNCHANGED <<reader, dwarf, lazy, eval, tree, lastVars>>

(* The state of the loop of execInsns when it is entered: frame = dframe,  *)
(* an empty stack, the reader at the FDE's instructions.                   *)
Entered(fde, d) == XState(d.st, fde.instructions, fde.iloc, d.frame, <<>>)

(* execInsns(r, version, fde->iloc, wantAddr) is called: the default frame *)
(* is computed by the nested call and copied into frame.                   *)
CfiEnter ==
    /\ cfi # <<>> /\ cfi.pc = "call"
    /\ \E g \in Garbage :
         cfi' = [cfi EXCEPT
                   !.g = g,
                   !.dframe = DefaultFrame(cfi.io, cfi.fde.cie, cfi.fde.iloc,
                                           cfi.wantAddr, g).frame,
                   !.s = Entered(cfi.fde,
                                 DefaultFrame(cfi.io, cfi.fde.cie, cfi.fde.iloc,
                                              cfi.wantAddr, g)),
                   !.op = <<>>,
                   !.pc = "loop"]
    /\ CfiFrame

Looping == cfi # <<>> /\ cfi.pc = "loop"

(* while (!r.empty() && addr <= wantAddr) holds and no instruction failed  *)
CfiGoesOn == cfi.s.st = "ok" /\ LoopGuard(cfi.s, cfi.fde.end, cfi.wantAddr)

(* One iteration of the loop: one instruction is decoded and executed.     *)
CfiStep ==
    /\ Looping /\ CfiGoesOn
    /\ cfi' = [cfi EXCEPT
                 !.s = ExecOp(cfi.io, cfi.fde.cie, cfi.dframe, cfi.s),
                 !.op = [byte |-> cfi.io[cfi.s.off + 1], pre |-> cfi.s]]
    /\ CfiFrame

(* done: return frame.  A read beyond the bytes leaves by exception; the   *)
(* caller may call again either way.                                       *)
CfiReturn ==
    /\ Looping /\ ~CfiGoesOn /\ cfi.s.st \in {"ok", "throw"}
    /\ cfi' = [cfi EXCEPT
                 !.rows = Append(cfi.rows, cfi.s),
                 !.pc = IF Len(cfi.rows) + 1 < MaxRuns THEN "call" ELSE "done"]
    /\ CfiFrame

(* abort(), or behaviour that is undefined: nothing is returned.           *)
CfiDie ==
    /\ Looping /\ cfi.s.st \in {"abort", "ub"}
    /\ cfi' = [cfi EXCEPT !.pc = cfi.s.st]
    /\ CfiFrame

NextCfi == CfiEnter \/ CfiStep \/ CfiReturn \/ CfiDie

SpecCfi == InitCfi /\ [][NextCfi]_vars

-----------------------------------------------------------------------------
(* The DIE tree of one compile unit, decoded entry by entry:               *)
(* DwarfUnit::DwarfUnit reads the abbreviations, then decodeEntries and    *)
(* DwarfEntry::DwarfEntry recurse over the entries.  depth counts the      *)
(* calls of decodeEntries that are open below the outermost one.           *)

MaxDies == 3

(* DIEs as encoded in .debug_info, for the abbreviations of AbbrevBytes    *)
D_unit == <<1, 97, 0>>
D_variable == <<2, 5>>
D_null == <<0>>
D_undefined == <<3>>
D_unterminated == <<1, 97>>

DieBytes == {D_unit, D_variable, D_null, D_undefined, D_unterminated}

(* What DwarfAbbreviation() {} leaves in a new element of the map: an      *)
(* empty list of specs; tag and hasChildren are not initialised.           *)
DefaultAbbreviation(tag, hasChildren) == Abbrev("ok", 0, tag, hasChildren, <<>>)

Indeterminate == {0, 1}

InitTree ==
    /\ \E dies \in Programs(DieBytes, MaxDies) :
         tree = [io |-> AbbrevBytes \o Flatten(dies),
                 abbrevOff |-> 0,
                 off |-> Len(AbbrevBytes),
                 end |-> Len(AbbrevBytes) + Len(Flatten(dies)),
                 abbreviations |-> <<>>, read |-> {},
                 entries |-> <<>>, depth |-> 0, pc |-> "unit",
                 missing |-> FALSE]
    /\ image = <<>> /\ regs = <<>> /\ garbage = 0
    /\ UnwindIdle
    /\ WalkIdle
    /\ LineIdle
    /\ ReaderIdle
    /\ FramesIdle
    /\ LazyIdle
    /\ ExprIdle
    /\ CfiIdle
    /\ LastIdle

TreeFrame ==
    /\ UNCHANGED <<image, regs, garbage>>
    /\ UNCHANGED unwindVars
    /\ UNCHANGED walkVars
    /\ UNCHANGED lineVars
    /\ UNCHANGED <<reader, dwarf, lazy, eval, cfi, lastVars>>

(* while ((code = abbR.getuleb128()) != 0) abbreviations[code] = ...       *)
TreeAbbreviations ==
    /\ tree # <<>> /\ tree.pc = "unit"
    /\ tree' = [tree EXCEPT
                  !.abbreviations = AbbrevLoop(tree.io, tree.abbrevOff, <<>>).table,
                  !.read = DOMAIN AbbrevLoop(tree.io, tree.abbrevOff, <<>>).table,
                  !.pc = AbbrevLoop(tree.io, tree.abbrevOff, <<>>).st]
    /\ TreeFrame

Decoding == tree # <<>> /\ tree.pc = "ok"

(* type(&unit->abbreviations[DwarfTag(code)]): operator[] of the map adds  *)
(* a default-constructed element for a key that is not there.              *)
Lookup(table, code, tag, hasChildren) ==
    IF code \in DOMAIN table THEN table
    ELSE Put(table, code, DefaultAbbreviation(tag, hasChildren))

(* DwarfEntry::DwarfEntry for the code read: the attributes of the         *)
(* abbreviation are decoded; with hasChildren the children follow.         *)
EntryDecoded(code, table, attrs) ==
    [tree EXCEPT
       !.abbreviations = table,
       !.missing = code.v \notin DOMAIN tree.abbreviations,
       !.off = attrs.off,
       !.pc = attrs.st,
       !.entries = IF attrs.st = "ok" THEN Append(@, code.v) ELSE @,
       !.depth = IF attrs.st = "ok" /\ table[code.v].hasChildren # 0
                 THEN @ + 1 ELSE @]

EntryTyped(code, table) ==
    EntryDecoded(code, table, AttrLoop(tree.io, code.off, table[code.v].specs, 1))

(* if (code == 0) return: the innermost open decodeEntries returns         *)
SiblingsEnd(code) ==
    [tree EXCEPT !.off = code.off, !.missing = FALSE,
                 !.depth = IF @ = 0 THEN 0 ELSE @ - 1,
                 !.pc = IF tree.depth = 0 THEN "done" ELSE "ok"]

CodeRead(code, tag, hasChildren) ==
    IF code.st # "ok" THEN [tree EXCEPT !.pc = code.st, !.missing = FALSE]
    ELSE IF code.v = 0 THEN SiblingsEnd(code)
    ELSE EntryTyped(code, Lookup(tree.abbreviations, code.v, tag, hasChildren))

(* One pass of the loop of decodeEntries: a code is read and, unless it    *)
(* is 0, its DwarfEntry is constructed up to its children.                 *)
TreeEntry ==
    /\ Decoding /\ tree.off # tree.end
    /\ \E tag \in Garbage, hasChildren \in Indeterminate :
         tree' = CodeRead(getuleb128(tree.io, tree.off), tag, hasChildren)
    /\ TreeFrame

(* r.empty(): every open decodeEntries leaves its loop                     *)
TreeReturn ==
    /\ Decoding /\ tree.off = tree.end
    /\ tree' = [tree EXCEPT !.pc = "done", !.depth = 0, !.missing = FALSE]
    /\ TreeFrame

NextTree == TreeAbbreviations \/ TreeEntry \/ TreeReturn

SpecTree == InitTree /\ [][NextTree]_vars

-----------------------------------------------------------------------------
(* DwarfInfo::sourceFromAddr(addr): the loop over the address ranges, and  *)
(* for a range that covers addr the loop over the rows of the line matrix  *)
(* of the range's unit.                                                    *)

MaxRows == 3

RowAddrs == {0, 4, 8}

(* The row a line program has put at position k of the matrix *)
MatrixRow(k, at, es) == [addr |-> at, file |-> 1, line |-> 10 + k, end_sequence |-> es]

Matrices ==
    UNION {{[k \in 1 .. n |-> MatrixRow(k, at[k], es[k])] :
               at \in [1 .. n -> RowAddrs], es \in [1 .. n -> BOOLEAN]} :
           n \in 0 .. MaxRows}

(* .debug_aranges in iteration order: the unit of the set, start, length   *)
ARange(unit, start, length) == [unit |-> unit, start |-> start, length |-> length]

RangeLists ==
    {<<ARange(11, 0, 16)>>, <<ARange(11, 8, 4)>>, <<ARange(99, 0, 16)>>,
     <<ARange(11, 8, 4), ARange(11, 0, 8)>>}

LookupAddrs == {2, 4, 9}

(* What the storage behind the last row of the vector may hold             *)
BeyondAddrs == {0, W - 1}

InitSource ==
    /\ \E m \in Matrices, rl \in RangeLists, a \in LookupAddrs :
          source = [ranges |-> rl, unitsm |-> [u \in {11} |-> m], addr |-> a,
                    ri |-> 1, i |-> 0, info |-> <<>>, beyond |-> FALSE,
                    pc |-> "ranges"]
    /\ image = <<>> /\ regs = <<>> /\ garbage = 0
    /\ UnwindIdle
    /\ WalkIdle
    /\ LineIdle
    /\ ReaderIdle
    /\ FramesIdle
    /\ LazyIdle
    /\ ExprIdle
    /\ CfiIdle
    /\ TreeIdle
    /\ SymbolsIdle

SourceFrame ==
    /\ UNCHANGED <<image, regs, garbage>>
    /\ UNCHANGED unwindVars
    /\ UNCHANGED walkVars
    /\ UNCHANGED lineVars
    /\ UNCHANGED <<reader, dwarf, lazy, eval, cfi, tree, symbols>>

(* r.start <= addr && r.start + r.length > addr *)
Covers(r, addr) == r.start <= addr /\ WAdd(r.start, r.length) > addr

(* unitsm.find(rs.debugInfoOffset) != unitsm.end(), and the loop over the  *)
(* matrix has a row to begin with                                          *)
HasRows(r) == r.unit \in DOMAIN source.unitsm /\ source.unitsm[r.unit] # <<>>

(* One range of the loops over ranges(): the rows' loop is entered when    *)
(* the range covers addr and its unit is known.                            *)
SourceRange ==
    /\ source # <<>>
    /\ source.pc = "ranges"
    /\ source.ri <= Len(source.ranges)
    /\ source' =
          IF Covers(source.ranges[source.ri], source.addr)
                /\ HasRows(source.ranges[source.ri])
          THEN [source EXCEPT !.pc = "rows", !.i = 1]
          ELSE [source EXCEPT !.ri = @ + 1]
    /\ SourceFrame

(* ++i of the loop over the matrix; at matrix.end() the next range         *)
RowDone(s, n) ==
    IF s.i = n THEN [s EXCEPT !.pc = "ranges", !.i = 0, !.ri = @ + 1]
    ELSE [s EXCEPT !.i = @ + 1]

(* info.push_back(std::make_pair(i->file, i->line)) *)
PushInfo(s, row) == [s EXCEPT !.info = Append(@, <<row.file, row.line>>)]

(* next = i + 1; ... next->addr > addr: the row after the last one is read *)
(* from behind the vector's elements (nextAddr is what is found there).    *)
NextRow(s, m, nextAddr) ==
    IF s.i = Len(m)
    THEN IF nextAddr > s.addr
         THEN RowDone(PushInfo([s EXCEPT !.beyond = TRUE], m[s.i]), Len(m))
         ELSE RowDone([s EXCEPT !.beyond = TRUE], Len(m))
    ELSE IF m[s.i + 1].addr > s.addr THEN RowDone(PushInfo(s, m[s.i]), Len(m))
    ELSE RowDone(s, Len(m))

(* The body of the loop over the matrix for the row at i                   *)
RowBody(s, m, nextAddr) ==
    IF m[s.i].end_sequence THEN RowDone(s, Len(m))
    ELSE IF m[s.i].addr <= s.addr THEN NextRow(s, m, nextAddr)
    ELSE RowDone(s, Len(m))

SourceRow ==
    /\ source # <<>>
    /\ source.pc = "rows"
    /\ \E nextAddr \in BeyondAddrs :
          source' = RowBody(source, source.unitsm[source.ranges[source.ri].unit],
                            nextAddr)
    /\ SourceFrame

(* return info *)
SourceReturn ==
    /\ source # <<>>
    /\ source.pc = "ranges"
    /\ source.ri > Len(source.ranges)
    /\ source' = [source EXCEPT !.pc = "done"]
    /\ SourceFrame

NextSource == SourceRange \/ SourceRow \/ SourceReturn

SpecSource == InitSource /\ [][NextSource]_vars

-----------------------------------------------------------------------------
(* ElfObject::findSymbolByAddress(addr, type, sym, name): the loop over    *)
(* the sections .dynsym and .symtab and the loop over the symbols of one.  *)

MaxSyms == 2

STT_NOTYPE == 0
STT_OBJECT == 1
STT_FUNC == 2

ElfSym(shndx, type, value, size) ==
    [st_shndx |-> shndx, st_type |-> type, st_value |-> value, st_size |-> size]

(* sectionHeaders: the null section, an allocated .text, a .comment that   *)
(* is not allocated; sh_flags & SHF_ALLOC of each                          *)
SectionAlloc == <<FALSE, TRUE, FALSE>>

(* Symbols: a function that contains the address, stubs without a size at  *)
(* 8, 4 and 0, an object, a function of a section that is not allocated,   *)
(* an absolute symbol (st_shndx beyond the section headers), a function    *)
(* above the address.                                                      *)
SymbolPool ==
    {ElfSym(1, STT_FUNC, 8, 8), ElfSym(1, STT_FUNC, 8, 0),
     ElfSym(1, STT_FUNC, 4, 0), ElfSym(1, STT_FUNC, 0, 0),
     ElfSym(1, STT_OBJECT, 8, 8), ElfSym(2, STT_FUNC, 8, 8),
     ElfSym(3, STT_FUNC, 8, 0), ElfSym(1, STT_FUNC, 16, 4)}

(* findSectionByName returned 0 *)
NoSymSection == [present |-> FALSE, syms |-> <<>>]
SymSectionOf(syms) == [present |-> TRUE, syms |-> syms]

SymTables ==
    {NoSymSection} \cup
    {SymSectionOf(syms) : syms \in UNION {[1 .. n -> SymbolPool] : n \in 0 .. MaxSyms}}

SymAddr == 10

InitSymbols ==
    /\ \E dynsym \in SymTables, symtab \in SymTables,
          type \in {STT_FUNC, STT_NOTYPE} :
          symbols = [sections |-> <<dynsym, symtab>>, addr |-> SymAddr,
                     type |-> type, si |-> 1, ci |-> 0, lowest |-> 0,
                     set |-> FALSE, sym |-> <<>>, ret |-> FALSE,
                     pc |-> "section"]
    /\ image = <<>> /\ regs = <<>> /\ garbage = 0
    /\ UnwindIdle
    /\ WalkIdle
    /\ LineIdle
    /\ ReaderIdle
    /\ FramesIdle
    /\ LazyIdle
    /\ ExprIdle
    /\ CfiIdle
    /\ TreeIdle
    /\ SourceIdle

SymFrame ==
    /\ UNCHANGED <<image, regs, garbage>>
    /\ UNCHANGED unwindVars
    /\ UNCHANGED walkVars
    /\ UNCHANGED lineVars
    /\ UNCHANGED <<reader, dwarf, lazy, eval, cfi, tree, source>>

(* SectionIterable iter(this, sectionNames[i]); iter.begin() reads         *)
(* shdr->sh_offset, also when findSectionByName returned 0.                *)
IterBegin(s) ==
    IF ~s.sections[s.si].present THEN [s EXCEPT !.pc = "ub"]
    ELSE IF s.sections[s.si].syms = <<>> THEN [s EXCEPT !.si = @ + 1]
    ELSE [s EXCEPT !.pc = "candidates", !.ci = 1]

(* for (i = 0; sectionNames[i] && !exact; i++) *)
SymSection ==
    /\ symbols # <<>>
    /\ symbols.pc = "section"
    /\ symbols.si <= 2
    /\ symbols' = IterBegin(symbols)
    /\ SymFrame

(* ++ of the iterator; at iter.end() the next section                      *)
CandidateDone(s) ==
    IF s.ci = Len(s.sections[s.si].syms)
    THEN [s EXCEPT !.pc = "section", !.ci = 0, !.si = @ + 1]
    ELSE [s EXCEPT !.ci = @ + 1]

(* the four tests that skip a candidate *)
Skipped(s, c) ==
    \/ c.st_shndx >= Len(SectionAlloc)
    \/ ~SectionAlloc[c.st_shndx + 1]
    \/ s.type # STT_NOTYPE /\ c.st_type # s.type
    \/ c.st_value > s.addr

(* if (candidate.st_size) ... else if (lowest < candidate.st_value) ...    *)
Candidate(s, c) ==
    IF Skipped(s, c) THEN CandidateDone(s)
    ELSE IF c.st_size # 0
    THEN IF WAdd(c.st_size, c.st_value) > s.addr
         THEN [s EXCEPT !.sym = c, !.set = TRUE, !.ret = TRUE, !.pc = "done"]
         ELSE CandidateDone(s)
    ELSE IF s.lowest < c.st_value
    THEN CandidateDone([s EXCEPT !.sym = c, !.set = TRUE, !.lowest = c.st_value])
    ELSE CandidateDone(s)

SymCandidate ==
    /\ symbols # <<>>
    /\ symbols.pc = "candidates"
    /\ symbols' = Candidate(symbols, symbols.sections[symbols.si].syms[symbols.ci])
    /\ SymFrame

(* return lowest != 0 *)
SymReturn ==
    /\ symbols # <<>>
    /\ symbols.pc = "section"
    /\ symbols.si > 2
    /\ symbols' = [symbols EXCEPT !.ret = (symbols.lowest # 0), !.pc = "done"]
    /\ SymFrame

NextSymbols == SymSection \/ SymCandidate \/ SymReturn

SpecSymbols == InitSymbols /\ [][NextSymbols]_vars

-----------------------------------------------------------------------------
(* Properties of the one-step unwind *)

TheFDE == ures.fde
Stepped == upc = "done" /\ ures.found
SteppedOk == Stepped /\ ures.st = "ok"

(* C4: with CFA rule register+offset the CFA is regs[cfa_reg] + offset,    *)
(* and an architectural register with rule offset(n) gets the word of      *)
(* process memory at CFA + n, modulo the word size; for the prologue       *)
(* def_cfa rsp, 8; offset rip, -8 this is CFA = S + 8, caller rip = *S.    *)
C4_OffsetRule ==
    SteppedOk /\ ures.frame.cfaValue.type = "OFFSET" =>
        /\ ures.cfa = (ures.callee[ures.frame.cfaReg] + ures.frame.cfaValue.a) % W
        /\ \A r \in ArchRegs :
              ures.frame.registers[r].type = "OFFSET" =>
                regs[r] = image.mem[(ures.cfa + ures.frame.registers[r].a) % W]
        /\ (/\ ures.frame.cfaReg = CFA_RESTORE_REGNO
            /\ ures.frame.cfaValue.a = 8
            /\ ures.frame.registers[IPREG] = Rule("OFFSET", W - 8, garbage))
           => /\ ures.cfa = (ures.callee[CFA_RESTORE_REGNO] + 8) % W
              /\ regs[IPREG] = image.mem[ures.callee[CFA_RESTORE_REGNO]]
              /\ ures.pc = image.mem[ures.callee[CFA_RESTORE_REGNO]]

C4_Witness ==
    /\ SteppedOk
    /\ TheFDE.prog = <<>>
    /\ ures.frame.cfaReg = CFA_RESTORE_REGNO /\ ures.frame.cfaValue.a = 8
    /\ ures.frame.registers[IPREG].type = "OFFSET"
    /\ ures.callee[CFA_RESTORE_REGNO] = StackTop
    /\ ures.cfa = StackTop + 8
    /\ regs[IPREG] = UnwindMem[StackTop]

(* C5: when the row leaves the stack-pointer register undef, the caller's  *)
(* stack pointer is the CFA (rsp + 8 with rsp = StackTop gives             *)
(* StackTop + 8); with any other rule it is the value that rule gives.     *)
C5_RestoreSP ==
    SteppedOk =>
        LET u == ures.frame.registers[CFA_RESTORE_REGNO]
        IN  /\ u.type = "UNDEF" => regs[CFA_RESTORE_REGNO] = ures.cfa
            /\ u.type = "SAME" =>
                  regs[CFA_RESTORE_REGNO] = ures.callee[CFA_RESTORE_REGNO]
            /\ u.type = "OFFSET" =>
                  regs[CFA_RESTORE_REGNO] = image.mem[(ures.cfa + u.a) % W]
            /\ u.type = "REG" => regs[CFA_RESTORE_REGNO] = ures.callee[u.a]
            /\ u.type \in {"EXPRESSION", "VAL_EXPRESSION"} =>
                  regs[CFA_RESTORE_REGNO] =
                    RuleValue(image.io, image.mem, u, ures.cfa, ures.callee,
                              CFA_RESTORE_REGNO).v
            /\ (/\ u.type = "UNDEF"
                /\ ures.frame.cfaValue = Rule("OFFSET", 8, garbage)
                /\ ures.frame.cfaReg = CFA_RESTORE_REGNO
                /\ ures.callee[CFA_RESTORE_REGNO] = StackTop)
               => regs[CFA_RESTORE_REGNO] = StackTop + 8

C5_Witness ==
    /\ SteppedOk
    /\ ures.frame.registers[CFA_RESTORE_REGNO].type = "UNDEF"
    /\ ures.frame.cfaReg = CFA_RESTORE_REGNO /\ ures.frame.cfaValue.a = 8
    /\ ures.callee[CFA_RESTORE_REGNO] = StackTop
    /\ regs[CFA_RESTORE_REGNO] = StackTop + 8

(* Where the assembler put each instruction of an FDE's stream: the code   *)
(* address in force before instruction k, from the advance_loc deltas.     *)
Delta(insn) ==
    IF insn[1] >= DW_CFA_advance_loc /\ insn[1] < DW_CFA_offset
    THEN insn[1] - DW_CFA_advance_loc ELSE 0

RECURSIVE LocOf(_, _, _, _)
LocOf(prog, k, iloc, codeAlign) ==
    IF k = 1 THEN iloc
    ELSE (LocOf(prog, k - 1, iloc, codeAlign) + Delta(prog[k - 1]) * codeAlign) % W

(* The instructions placed at addresses <= want: the longest such prefix.  *)
PlacedUpTo(prog, iloc, codeAlign, want) ==
    CHOOSE n \in 0 .. Len(prog) :
        /\ \A k \in 1 .. n : LocOf(prog, k, iloc, codeAlign) <= want
        /\ n < Len(prog) => LocOf(prog, n + 1, iloc, codeAlign) > want

(* C6: the row is the result of executing the FDE's instructions from      *)
(* addr = iloc exactly while addr <= objpc - 1: the reader stops after the *)
(* instructions placed at addresses <= objpc - 1, a rule change among them *)
(* is in the row, a rule change placed at objpc or higher is not.          *)
C6_RowAtCallSite ==
    Stepped /\ ures.xst = "ok" =>
        LET prog == TheFDE.prog
            want == (ures.callee[IPREG] - image.reloc - 1) % W
            n == PlacedUpTo(prog, TheFDE.iloc, TheFDE.cie.codeAlign, want)
        IN  /\ ures.xoff = TheFDE.instructions + Len(Flatten(SubSeq(prog, 1, n)))
            /\ (\E k \in 1 .. n : prog[k] = I_offset_rbp)
                  <=> ures.frame.registers[6].type = "OFFSET"
            /\ (\E k \in 1 .. n : prog[k] = I_def_cfa_offset16)
                  => ures.frame.cfaValue.a = 16

C6_Witness ==
    /\ Stepped /\ ures.xst = "ok"
    /\ TheFDE.prog = <<I_advance2, I_offset_rbp>>
    /\ ures.callee[IPREG] - image.reloc = TheFDE.iloc + 2
    /\ ures.frame.registers[6].type = "UNDEF"
    /\ ures.xoff = TheFDE.end - 2

(* C7: every run of an FDE's instructions starts from the default row made *)
(* by the CIE's initial instructions, for every (addr, wantAddr) the       *)
(* unwinder passes, an FDE at location 0 queried with wantAddr 0 included. *)
C7_DefaultRowSeeds ==
    Stepped /\ ures.xst = "ok" =>
        LET cie == TheFDE.cie
            fresh == DwarfCallFrame(garbage)
            dflt == ExecLoop(image.io, cie, fresh, cie.end, 0,
                             XState("ok", cie.instructions, 0, fresh, <<>>)).frame
            want == (ures.callee[IPREG] - image.reloc - 1) % W
        IN  ures.frame =
              ExecLoop(image.io, cie, dflt, TheFDE.end, want,
                       XState("ok", TheFDE.instructions, TheFDE.iloc, dflt, <<>>)).frame

-----------------------------------------------------------------------------
(* Properties of the stack walker *)

ThreadIds == 1 .. NThreads
FirstIp(t) == threads[t][IPREG]
Attempted(t) == ends[t] \in {"none", "throw", "abort", "crash"}

C2_FramesRecorded ==
    \A t \in ThreadIds :
        /\ Attempted(t) => stacks[t] = <<FirstIp(t)>> \o steps[t]
        /\ (cur = t /\ wpc = "walking") =>
              stacks[t] \o <<prevIp>> = <<FirstIp(t)>> \o steps[t]

C2_Witness ==
    \E t, u \in ThreadIds :
        /\ ends[t] = "none" /\ Len(steps[t]) = 1 /\ Len(stacks[t]) = 2
        /\ stacks[t][2] = WalkMem[StackTop]
        /\ ends[u] = "none" /\ steps[u] = <<>> /\ stacks[u] = <<FirstIp(u)>>
        /\ WalkMem[threads[u][CFA_RESTORE_REGNO]] = 0

(* C3: a decode or I/O error inside a one-step unwind (an unknown CFI      *)
(* opcode, an unsupported register rule, unreadable memory) ends only that *)
(* thread's walk, with a warning: the frames recorded so far stay, the     *)
(* other threads are still walked, the program is never terminated.        *)
C3_ErrorsEndOnlyTheWalk ==
    /\ wpc # "aborted"
    /\ \A t \in ThreadIds :
          ends[t] \in {"throw", "abort"} =>
            /\ warned[t]
            /\ stacks[t] = <<FirstIp(t)>> \o steps[t]

-----------------------------------------------------------------------------
(* Properties of the line VM *)

Stepped1(kind) == lpc = "run" /\ lastOp.kind = kind
LastRow == matrix[Len(matrix)]

(* Rows i < j are of one sequence when no row from i to j - 1 ends one. *)
SameSequence(i, j) == \A k \in i .. (j - 1) : matrix[k].end_sequence = 0

C9_EndSequenceResets ==
    Stepped1("end_sequence") =>
        /\ Len(matrix) = lastOp.rows + 1
        /\ LastRow = [lastOp.pre EXCEPT !.end_sequence = 1]
        /\ lstate.addr = 0
        /\ lstate.line = 1
        /\ lstate.column = 0
        /\ lstate.is_stmt = lhdr.default_is_stmt
        /\ lstate.basic_block = 0
        /\ lstate.end_sequence = 0

C9_Witness ==
    /\ Stepped1("end_sequence")
    /\ lastOp.pre.addr # 0 /\ lastOp.pre.line # 1 /\ lastOp.pre.file # 1
    /\ lhdr.default_is_stmt = 0
    /\ LastRow.end_sequence = 1
    /\ lstate.addr = 0 /\ lstate.line = 1

(* C10: a special opcode adds (adjusted / line_range) * min_insn_length to *)
(* the address and line_base + adjusted % line_range to the line, with     *)
(* adjusted = opcode - opcode_base, appends a row and clears basic_block;  *)
(* under the header (1, -3, 12, 13) the byte 78 adds 5 and 2.              *)
C10_SpecialOpcode ==
    Stepped1("special") =>
        LET adjusted == lastOp.byte - lhdr.opcode_base
            pre == lastOp.pre
        IN  /\ lstate.addr =
                  (pre.addr + (adjusted \div lhdr.line_range) * lhdr.min_insn_length) % W
            /\ lstate.line =
                  (pre.line + lhdr.line_base + (adjusted % lhdr.line_range)) % W
            /\ Len(matrix) = lastOp.rows + 1
            /\ LastRow = [lstate EXCEPT !.basic_block = pre.basic_block]
            /\ lstate.basic_block = 0
            /\ (/\ lhdr = LineHeaderOf(1, 1, 0 - 3, 12, 13)
                /\ lastOp.byte = 78)
               => /\ lstate.addr = (pre.addr + 5) % W
                  /\ lstate.line = (pre.line + 2) % W

C10_Witness ==
    /\ Stepped1("special")
    /\ lhdr = LineHeaderOf(1, 1, 0 - 3, 12, 13)
    /\ lastOp.byte = 78
    /\ lastOp.pre.basic_block = 1
    /\ lstate.addr = lastOp.pre.addr + 5
    /\ lstate.line = lastOp.pre.line + 2
    /\ lstate.basic_block = 0

-----------------------------------------------------------------------------
(* Properties of the reader *)

Did(op) == reader.last.op = op
First(op, kind) == Did(op) /\ reader.last.pre = 0 /\ reader.kind = kind

(* C11: getuleb128 applied to the ULEB128 encoding of an unsigned 64-bit   *)
(* value returns the value, getsleb128 applied to the SLEB128 encoding of  *)
(* a signed 64-bit value returns the value, and the cursor advances by the *)
(* number of encoded bytes, encodings of more than 4 bytes included.       *)
C11_LebRoundTrip ==
    /\ First("getuleb128", "uleb") =>
          /\ reader.last.res.st = "ok"
          /\ reader.last.res.bits = reader.bits
          /\ reader.off = Len(UlebEncode(reader.bits))
    /\ First("getsleb128", "sleb") =>
          /\ reader.last.res.st = "ok"
          /\ reader.last.res.bits = reader.bits
          /\ reader.off = Len(SlebEncode(reader.bits))

(* the four bytes at off are those of the word with this low byte and all  *)
(* other bytes 0xff                                                        *)
WordIs(off, low) ==
    /\ reader.io[off + 1] \in low
    /\ \A k \in 2 .. 4 : reader.io[off + k] = 255

(* C12: a successful getlength advances the cursor by 4 when the first     *)
(* word is a 32-bit length and by 12 when it is 0xffffffff, in which case  *)
(* the length returned is the 8-byte value that follows; it never advances *)
(* by another amount.                                                      *)
C12_LengthAdvance ==
    Did("getlength") /\ reader.last.res.st = "ok" =>
        IF WordIs(reader.last.pre, {255})
        THEN /\ reader.off = reader.last.pre + 12
             /\ reader.last.res.v = getuint(reader.io, reader.last.pre + 4, 8).v
        ELSE reader.off = reader.last.pre + 4

C12_Witness ==
    /\ Did("getlength") /\ reader.last.res.st = "ok"
    /\ reader.last.pre = 0
    /\ WordIs(0, {255})
    /\ reader.off = 12
    /\ reader.last.res.v = 24

(* C13: a first word in the reserved range 0xfffffff0 .. 0xfffffffe makes  *)
(* getlength fail with a decode error; it is never returned as a length.   *)
C13_ReservedLengthFails ==
    Did("getlength") /\ WordIs(reader.last.pre, 240 .. 254) =>
        reader.last.res.st \in {"throw", "abort"}

(* C14: the offset of a reader never exceeds its limit: an operation that  *)
(* would cross the limit fails, so off = end cannot be stepped over.       *)
C14_OffsetWithinLimit ==
    reader # <<>> /\ reader.pc = "run" => reader.off <= reader.end

(* C15: DwarfARangeSet reads the first tuple at the smallest offset from   *)
(* the start of the set that is a multiple of 2 * address_size and not     *)
(* below the header size: 16 for address size 8 and a 12-byte header, and  *)
(* the header size itself when that is a multiple already.                 *)
C15_FirstTupleAligned ==
    Did("DwarfARangeSet") /\ reader.last.res.st = "ok" =>
        LET tupleLen == 2 * reader.io[reader.last.pre + 11]
            used == reader.last.res.used
            at == reader.last.res.first - reader.last.pre
        IN  /\ at % tupleLen = 0
            /\ used <= at
            /\ at < used + tupleLen


-----------------------------------------------------------------------------
(* Properties of the frame sections *)

Constructed == dwarf # <<>> /\ dwarf.pc = "done"

(* The entries of a section that are CIEs, by the offsets they start at *)
CieStarts(sh) == {sh.entries[k].at : k \in {j \in 1 .. Len(sh.entries) : ~sh.entries[j].fde}}
FdeEntries(sh) == {sh.entries[k] : k \in {j \in 1 .. Len(sh.entries) : sh.entries[j].fde}}

(* The CIE the claim has an entry reference *)
Referenced(type, sh, m) == IF type = FI_EH_FRAME THEN m.at - m.id ELSE sh.off + m.id

Bound(f, m, target) ==
    /\ f.st = "ok"
    /\ \E k \in 1 .. Len(f.refs) :
          /\ f.refs[k].entry = m.at
          /\ f.refs[k].cieoff = target
          /\ f.fdeList[k].cie = f.cies[target]

EntriesBound(type, sh, f) ==
    \A m \in FdeEntries(sh) :
        Referenced(type, sh, m) \in CieStarts(sh)
            => Bound(f, m, Referenced(type, sh, m))

(* C16: once the DwarfInfo is constructed, every non-CIE entry of         *)
(* .eh_frame that starts at E with id V is bound to the CIE that starts at *)
(* E - V, and every non-CIE entry of .debug_frame with id V to the CIE at  *)
(* section offset V, for every sh_offset and for the CIE before or after   *)
(* the FDE.                                                                *)
C16_EntriesBound ==
    Constructed =>
        /\ EntriesBound(FI_EH_FRAME, dwarf.obj.eh_frame, dwarf.ehFrame)
        /\ EntriesBound(FI_DEBUG_FRAME, dwarf.obj.debug_frame, dwarf.debugFrame)

Unwound == dwarf # <<>> /\ upc = "done"

Covering(fdeList, addr) == {k \in 1 .. Len(fdeList) : FDECovers(fdeList[k], addr)}

DebugCovers == image.hasDebugFrame /\ Covering(image.debugFrame, ures.objaddr) # {}
EhCovers == image.hasEhFrame /\ Covering(image.ehFrame, ures.objaddr) # {}

(* C17: dwarfUnwind takes a covering FDE of .debug_frame when there is     *)
(* one, a covering FDE of .eh_frame only when .debug_frame is absent or    *)
(* has none, and with no covering FDE in either it returns 0 without an    *)
(* error and leaves the registers alone.                                   *)
C17_DebugFrameFirst ==
    Unwound =>
        /\ DebugCovers =>
              /\ ures.found /\ ures.section = "debug_frame"
              /\ \E k \in Covering(image.debugFrame, ures.objaddr) :
                    ures.fde = image.debugFrame[k]
        /\ ~DebugCovers /\ EhCovers =>
              /\ ures.found /\ ures.section = "eh_frame"
              /\ \E k \in Covering(image.ehFrame, ures.objaddr) :
                    ures.fde = image.ehFrame[k]
        /\ ~DebugCovers /\ ~EhCovers =>
              /\ ~ures.found /\ ures.st = "ok" /\ ures.pc = 0
              /\ regs = ures.callee

C17_Witness ==
    /\ Unwound /\ DebugCovers /\ EhCovers
    /\ ures.st = "ok" /\ ures.section = "debug_frame"
    /\ ures.fde.irange = DebugRange

C17_WitnessFallback ==
    /\ Unwound /\ image.hasDebugFrame /\ ~DebugCovers /\ EhCovers
    /\ ures.st = "ok" /\ ures.section = "eh_frame"

C17_WitnessMiss ==
    /\ Unwound /\ image.hasDebugFrame /\ image.hasEhFrame
    /\ ~ures.found /\ ures.pc = 0

(* What decoding each section of the object gives *)
EhDecode == NewFrameInfo(dwarf.obj, dwarf.obj.eh_frame, FI_EH_FRAME)
DebugDecode == NewFrameInfo(dwarf.obj, dwarf.obj.debug_frame, FI_DEBUG_FRAME)

DecodeFails(f) == f.st \notin {"ok", "null"}

(* C18: when the decoding of one frame section fails, the constructor of   *)
(* DwarfInfo still completes, the index of the failed section is empty,    *)
(* and the other section is decoded and is the one unwinds use.            *)
C18_SectionFailureContained ==
    dwarf # <<>> =>
        /\ dwarf.pc \in {FI_EH_FRAME, FI_DEBUG_FRAME, "done"}
        /\ dwarf.pc # FI_EH_FRAME /\ DecodeFails(EhDecode) =>
              ~image.hasEhFrame /\ dwarf.ehFrame = NullFrame
        /\ Constructed /\ DecodeFails(DebugDecode) =>
              ~image.hasDebugFrame /\ dwarf.debugFrame = NullFrame
        /\ Constructed /\ DecodeFails(EhDecode) /\ DebugDecode.st = "ok" =>
              image.hasDebugFrame /\ dwarf.debugFrame = DebugDecode
        /\ Constructed /\ DecodeFails(DebugDecode) /\ EhDecode.st = "ok" =>
              image.hasEhFrame /\ dwarf.ehFrame = EhDecode
        /\ Unwound /\ DecodeFails(EhDecode) /\ DebugCovers =>
              ures.section = "debug_frame"
        /\ Unwound /\ DecodeFails(DebugDecode) /\ EhCovers =>
              ures.section = "eh_frame"

-----------------------------------------------------------------------------
(* Properties of the lazily built indexes *)

(* No two elements of a list were decoded at the same offset *)
NoDuplicates(items) ==
    \A i, j \in 1 .. Len(items) : items[i].at = items[j].at => i = j

(* C19: over every sequence of calls of units(), ranges() and pubnames(),  *)
(* calls that ended in an error included, each section is parsed at most   *)
(* once, no unit or set is in its container twice, and a call that returns *)
(* gives what the first call that returned gave.                           *)
C19_ComputedOnce ==
    lazy # <<>> =>
        /\ lazy.parses.units <= 1
        /\ lazy.parses.pubnames <= 1
        /\ lazy.parses.ranges <= 1
        /\ NoDuplicates(lazy.pubnameUnits)
        /\ NoDuplicates(lazy.aranges)
        /\ lazy.last.op # "none" /\ lazy.last.st = "ok" =>
              lazy.last.ret = lazy.first[lazy.last.op]

-----------------------------------------------------------------------------
(* Properties of the expression evaluator *)

(* The operation the last pass of the loop executed *)
OpDone == eval.prog[eval.n]
AfterOp(name) ==
    /\ eval # <<>> /\ eval.n > 0 /\ eval.pc # "returned" /\ eval.pre.st = "ok"
    /\ eval.s.off # eval.pre.off
    /\ OpDone.op = name

(* C20: DW_OP_bregN with SLEB128 operand k pushes regs[N] + k, for the     *)
(* 64-bit value k that was encoded; DW_OP_deref replaces the address on    *)
(* top of the stack by the word read at it; the value returned is the top  *)
(* of the stack when the bytes are exhausted; "breg6 -16; deref" with      *)
(* reg[6] = 0x600 and the word 0xdea at 0x5f0 gives 0xdea.                 *)
C20_BregDerefResult ==
    /\ AfterOp("breg") =>
          /\ eval.s.st = "ok"
          /\ eval.k.bits = OpDone.k
          /\ eval.s.stack = <<WAdd(eval.rg[OpDone.reg], WordOf(OpDone.k))>> \o eval.pre.stack
    /\ AfterOp("deref") /\ eval.pre.stack # <<>> /\ Head(eval.pre.stack) \in DOMAIN eval.mem =>
          /\ eval.s.st = "ok"
          /\ eval.s.stack = <<eval.mem[Head(eval.pre.stack)]>> \o Tail(eval.pre.stack)
    /\ eval # <<>> /\ eval.pc = "returned" =>
          /\ eval.pre.off = eval.lim
          /\ eval.rv = Head(eval.pre.stack)
    /\ /\ eval # <<>> /\ eval.pc = "returned"
       /\ eval.prog = <<BregOp(6, Minus16), PlainOp("deref", <<DW_OP_deref>>)>>
       => eval.rv = 3562

-----------------------------------------------------------------------------
(* Properties of the CFI interpreter *)

(* What a rule says: its type and the operands that type has.              *)
RuleView(r) ==
    CASE r.type \in {"UNDEF", "SAME"} -> <<r.type>>
      [] r.type \in {"OFFSET", "REG"} -> <<r.type, r.a>>
      [] OTHER -> <<r.type, r.a, r.b>>

RowView(frame) ==
    [registers |-> [i \in RegNos |-> RuleView(frame.registers[i])],
     cfaReg |-> frame.cfaReg,
     cfaValue |-> RuleView(frame.cfaValue)]

ReturnedRows == {k \in 1 .. Len(cfi.rows) : cfi.rows[k].st = "ok"}

(* C21: two runs of execInsns with the same CIE, the same FDE instruction  *)
(* bytes, the same starting addr and the same wantAddr return the same     *)
(* row: the same rule and operand for every register, the same CFA         *)
(* register and the same CFA rule.                                         *)
C21_SameRow ==
    cfi # <<>> =>
        \A i, j \in ReturnedRows :
            RowView(cfi.rows[i].frame) = RowView(cfi.rows[j].frame)

STACK_MAX == 1024

(* The instruction executed last, and the state it was executed in.        *)
CfiDid(opcode) == Looping /\ cfi.op # <<>> /\ cfi.op.byte = opcode

(* C25: in every reachable state of the CFI interpreter the depth of the   *)
(* remember_state/restore_state stack lies between 0 and 1024, and an      *)
(* instruction that would pop from the empty stack is reported as a        *)
(* decode error instead of being executed.                                 *)
C25_StackBounded ==
    Looping =>
        /\ Len(cfi.s.stack) \in 0 .. STACK_MAX
        /\ (CfiDid(DW_CFA_restore_state) /\ cfi.op.pre.stack = <<>>) =>
                cfi.s.st = "throw"

(* The operand that follows the opcode byte of the instruction executed   *)
(* last, read as SLEB128, and the one after a first ULEB128 operand.       *)
SignedOperand == getsleb128(cfi.io, cfi.op.pre.off + 1)
SignedSecond == getsleb128(cfi.io, getuleb128(cfi.io, cfi.op.pre.off + 1).off)

CfaBefore == cfi.op.pre.frame
CfaAfter == cfi.s.frame

Scaled(operand) == WMul(operand.v, cfi.fde.cie.dataAlign)

(* C26: def_cfa_sf and def_cfa_offset_sf read their offset operand as      *)
(* SLEB128 and set the CFA offset to operand * data_align; def_cfa_offset  *)
(* and def_cfa_offset_sf leave the CFA register unchanged, and             *)
(* def_cfa_register leaves the CFA offset unchanged.                       *)
C26_SignedCfaOffsets ==
    (Looping /\ cfi.op # <<>> /\ cfi.s.st = "ok") =>
        /\ CfiDid(DW_CFA_def_cfa_sf) =>
                CfaAfter.cfaValue.a = Scaled(SignedSecond)
        /\ CfiDid(DW_CFA_def_cfa_offset_sf) =>
                /\ CfaAfter.cfaValue.a = Scaled(SignedOperand)
                /\ CfaAfter.cfaReg = CfaBefore.cfaReg
        /\ CfiDid(DW_CFA_def_cfa_offset) =>
                CfaAfter.cfaReg = CfaBefore.cfaReg
        /\ CfiDid(DW_CFA_def_cfa_register) =>
                CfaAfter.cfaValue.a = CfaBefore.cfaValue.a

-----------------------------------------------------------------------------
(* Properties of the DIE tree *)

TreeRead == tree # <<>> /\ tree.pc # "unit"

(* C22: decoding a DIE whose abbreviation code is not defined in the       *)
(* unit's abbreviation table fails with a decode error and creates no DIE: *)
(* every DIE decoded carries a code that was read from .debug_abbrev, and  *)
(* decoding DIEs never adds entries to the abbreviation table.             *)
C22_UndefinedCodeFails ==
    TreeRead =>
        /\ tree.missing => tree.pc = "throw"
        /\ \A k \in 1 .. Len(tree.entries) : tree.entries[k] \in tree.read
        /\ DOMAIN tree.abbreviations = tree.read

-----------------------------------------------------------------------------
(* Properties of the augmentation handling (frames machine) *)

EhDecoded == dwarf # <<>> /\ dwarf.pc \in {FI_DEBUG_FRAME, "done"}

(* The augmentation string and data the CIE of a section was built with    *)
AugOf(kind) ==
    IF kind \in AugKinds THEN Augmentations[kind]
    ELSE [aug |-> <<Aug_z, Aug_R>>, data |-> <<DW_EH_PE_udata4>>]

(* The layout of the CIE entry at m.at: length and id (4 bytes each),      *)
(* version, the string and its terminator, the two alignment factors and   *)
(* the return address register, the length of the augmentation data.       *)
AugDataStart(m, a) == m.at + 4 + 4 + 1 + (Len(a.aug) + 1) + 3 + 1
AugDataEnd(m, a) == AugDataStart(m, a) + Len(a.data)
CieEnd(m, a) == m.at + Len(EhCieAug(a.aug, a.data))

CieEntries(sh) == {sh.entries[k] : k \in {j \in 1 .. Len(sh.entries) : ~sh.entries[j].fde}}

(* The FDE of the section was decoded from the entry at m.at               *)
FdeDecodedAt(f, m, insns) ==
    \E k \in 1 .. Len(f.refs) :
        /\ f.refs[k].entry = m.at
        /\ f.fdeList[k].iloc = 0
        /\ f.fdeList[k].irange = EhRange
        /\ f.fdeList[k].end = m.at + Len(EhFde(0, 0, DW_EH_PE_udata4, 0, 0))
        /\ f.fdeList[k].cie.instructions = insns

(* C23: for a CIE whose augmentation string starts with 'z', whatever      *)
(* characters follow, the initial instructions start at the declared end   *)
(* of the augmentation data and the constructor leaves the reader at the   *)
(* end of the CIE entry; the entries after a CIE with an unknown           *)
(* augmentation are decoded from their offsets.                            *)
C23_AugmentationSkipped ==
    (EhDecoded /\ dwarf.obj.eh_frame.bytes # <<>>) =>
        \A m \in CieEntries(dwarf.obj.eh_frame) :
            /\ DwarfCIE(dwarf.obj.io, m.at + 8,
                        CieEnd(m, AugOf(dwarf.obj.eh_frame.kind)),
                        dwarf.obj.base).st = "ok"
            /\ DwarfCIE(dwarf.obj.io, m.at + 8,
                        CieEnd(m, AugOf(dwarf.obj.eh_frame.kind)),
                        dwarf.obj.base).off
                    = CieEnd(m, AugOf(dwarf.obj.eh_frame.kind))
            /\ DwarfCIE(dwarf.obj.io, m.at + 8,
                        CieEnd(m, AugOf(dwarf.obj.eh_frame.kind)),
                        dwarf.obj.base).cie.instructions
                    = AugDataEnd(m, AugOf(dwarf.obj.eh_frame.kind))
            /\ dwarf.ehFrame.st = "ok" =>
                /\ m.at \in DOMAIN dwarf.ehFrame.cies
                /\ dwarf.ehFrame.cies[m.at].instructions
                        = AugDataEnd(m, AugOf(dwarf.obj.eh_frame.kind))
                /\ \A n \in FdeEntries(dwarf.obj.eh_frame) :
                        FdeDecodedAt(dwarf.ehFrame, n,
                                     AugDataEnd(m, AugOf(dwarf.obj.eh_frame.kind)))

C23_Witness ==
    /\ Unwound /\ ures.found
    /\ dwarf.obj.eh_frame.kind = "unknown_first"
    /\ dwarf.ehFrame.st = "ok"
    /\ Len(dwarf.ehFrame.fdeList) = 1
    /\ ~DebugCovers

C23_WitnessLast ==
    /\ EhDecoded
    /\ dwarf.obj.eh_frame.kind = "unknown_last"
    /\ dwarf.ehFrame.st = "ok"
    /\ Len(dwarf.ehFrame.fdeList) = 1

-----------------------------------------------------------------------------
(* Properties of the pointer encodings (frames machine) *)

EhTried == dwarf # <<>> /\ dwarf.pc # FI_EH_FRAME /\ dwarf.obj.eh_frame.bytes # <<>>

(* The pointer encoding the CIE of a section declares                      *)
EncodingOf(kind) ==
    CASE kind = "pcrel" -> DW_EH_PE_pcrel + DW_EH_PE_sdata4
      [] kind = "absptr" -> DW_EH_PE_absptr
      [] kind \in RelKinds -> RelEncodings[kind]
      [] OTHER -> DW_EH_PE_udata4

BaseOf(encoding) == (encoding \div 16) * 16

(* Every FDE of the section was decoded with the location it encodes       *)
LocationsDecoded(f, sh) ==
    /\ Len(f.fdeList) = Cardinality(FdeEntries(sh))
    /\ \A k \in 1 .. Len(f.fdeList) :
            f.fdeList[k].iloc = 0 /\ f.fdeList[k].irange = EhRange

(* C27: decodeAddress returns, for the absolute base, the value decoded    *)
(* in the given format (absptr included) and for pcrel that value plus the *)
(* file offset of the encoded value plus the load base; for every other    *)
(* base it reports a decode error and never returns an unadjusted value.   *)
C27_AddressBases ==
    EhTried =>
        /\ BaseOf(EncodingOf(dwarf.obj.eh_frame.kind)) \in {0, DW_EH_PE_pcrel} =>
                /\ dwarf.pc # "abort"
                /\ dwarf.ehFrame.st = "ok" =>
                        LocationsDecoded(dwarf.ehFrame, dwarf.obj.eh_frame)
        /\ BaseOf(EncodingOf(dwarf.obj.eh_frame.kind)) \notin {0, DW_EH_PE_pcrel} =>
                /\ dwarf.ehFrame.st # "ok"
                /\ dwarf.pc # "abort" => FI_EH_FRAME \in {dwarf.log[k] : k \in 1 .. Len(dwarf.log)}

-----------------------------------------------------------------------------
(* Properties of the expression rules (one-step unwind) *)

ExprRuled(i) == ures.frame.registers[i].type \in {"EXPRESSION", "VAL_EXPRESSION"}

(* The stack at the end of the bytes of register i's expression, evaluated *)
(* with an initial stack that contains only the CFA.                       *)
Evaluated(i) ==
    EvalLoop(image.io, image.mem, ures.callee,
             ures.frame.registers[i].a + ures.frame.registers[i].b,
             EState("ok", ures.frame.registers[i].a, <<ures.cfa>>))

(* What the rule of register i gives the caller's register                 *)
RuleGives(i, e) ==
    IF ures.frame.registers[i].type = "EXPRESSION"
    THEN Head(e.stack) \in DOMAIN image.mem
            /\ ures.newRegs[i] = image.mem[Head(e.stack)]
    ELSE ures.newRegs[i] = Head(e.stack)

(* C24: a register whose rule is expression(bytes) receives the word read  *)
(* from memory at the address obtained by evaluating bytes with an initial *)
(* stack that contains only the CFA, a register whose rule is              *)
(* val_expression(bytes) receives the evaluated value; the result is the   *)
(* top of the stack at the end of the bytes, and no empty stack is read.   *)
C24_ExpressionRules ==
    Stepped =>
        /\ ures.st # "ub"
        /\ ures.st = "ok" =>
              \A i \in ArchRegs :
                  ExprRuled(i) =>
                      /\ Evaluated(i).st = "ok"
                      /\ Evaluated(i).stack # <<>>
                      /\ RuleGives(i, Evaluated(i))

-----------------------------------------------------------------------------
(* Properties of the registers outside the architecture table *)

Unlisted == {i \in RegNos : ~dwarfIsArchReg(i)}

(* C29: after a successful one-step unwind every register number that is   *)
(* not in the architecture register table has in the caller's register set *)
(* the value it had in the callee's, and the caller PC returned is         *)
(* new_regs[return_address_register], a register this step has written.    *)
C29_UnlistedKept ==
    Stepped /\ ures.st = "ok" =>
        /\ \A i \in Unlisted : regs[i] = ures.callee[i]
        /\ dwarfIsArchReg(ures.fde.cie.rar)
        /\ ures.pc = regs[ures.fde.cie.rar]

-----------------------------------------------------------------------------
(* Properties of the address to source lookup *)

(* The ranges of the table that cover the address and whose unit is known *)
CoveringRanges ==
    {k \in 1 .. Len(source.ranges) :
        /\ Covers(source.ranges[k], source.addr)
        /\ source.ranges[k].unit \in DOMAIN source.unitsm}

(* The rows i of a matrix with row[i].address <= a < row[i+1].address that *)
(* are not end_sequence rows                                               *)
RowsAt(m, a) ==
    {i \in 1 .. (Len(m) - 1) :
        ~m[i].end_sequence /\ m[i].addr <= a /\ a < m[i + 1].addr}

Positions ==
    UNION {{<<m[i].file, m[i].line>> : i \in RowsAt(m, source.addr)} :
           m \in {source.unitsm[source.ranges[k].unit] : k \in CoveringRanges}}

InfoSet == {source.info[k] : k \in 1 .. Len(source.info)}

(* C28: sourceFromAddr(a) returns the (file, line) of exactly the rows i   *)
(* of the covering unit's matrix that are not end_sequence rows and have   *)
(* row[i].address <= a < row[i+1].address, and it never reads a row beyond *)
(* the last row of the matrix.                                             *)
C28_RowsOfAddress ==
    /\ ~source.beyond
    /\ source.pc = "done" => InfoSet = Positions

-----------------------------------------------------------------------------
(* Properties of the symbol lookup by address *)

AllSyms ==
    UNION {{symbols.sections[k].syms[j] : j \in 1 .. Len(symbols.sections[k].syms)} :
           k \in 1 .. 2}

(* In an allocated section, of the requested type *)
Matching(c) ==
    /\ c.st_shndx < Len(SectionAlloc)
    /\ SectionAlloc[c.st_shndx + 1]
    /\ symbols.type = STT_NOTYPE \/ c.st_type = symbols.type

Including ==
    {c \in AllSyms :
        /\ Matching(c) /\ c.st_size # 0
        /\ c.st_value <= symbols.addr /\ symbols.addr < c.st_value + c.st_size}

Below == {c \in AllSyms : Matching(c) /\ c.st_value <= symbols.addr}

Stubs == {c \in Below : c.st_size = 0}

(* C30: findSymbolByAddress returns a matching symbol of an allocated      *)
(* section whose range includes addr whenever there is one; when no        *)
(* symbol's range includes addr it returns the matching zero-size symbol   *)
(* with the highest st_value <= addr; it returns false when no matching    *)
(* symbol has st_value <= addr.                                            *)
C30_SymbolOfAddress ==
    /\ symbols.pc # "ub"
    /\ symbols.pc = "done" =>
          /\ Including # {} => symbols.ret /\ symbols.sym \in Including
          /\ Including = {} /\ Stubs # {} =>
                /\ symbols.ret
                /\ symbols.sym \in Stubs
                /\ \A c \in Stubs : c.st_value <= symbols.sym.st_value
          /\ Below = {} => ~symbols.ret

=============================================================================
